---- MODULE Spec2Model ----
(***************************************************************************)
(* A model of the publishing engine of the Obsidian digital-garden plugin: *)
(* the GitHub client (concurrency limiter, retrying request, idempotent    *)
(* createOrUpdateFile), the sync manifest and the publishAll orchestration.*)
(***************************************************************************)
EXTENDS Integers, Sequences, FiniteSets, TLC

(***************************************************************************)
(* Program constants                                                       *)
(***************************************************************************)
\* new ConcurrencyLimiter(5)
maxConcurrent == 5
\* request(..., retries = 3)
retries == 3

(***************************************************************************)
(* Bounds of the model                                                     *)
(***************************************************************************)
\* publishAll runs (callers of the client) that may be in progress at once
GateTasks == 7
\* requests, over one behaviour, that a lossy network ends differently from a
\* lossless one
MaxFaults == 2

Clients == {1, 2}
Tasks == 1..GateTasks
Null == 0

RECURSIVE Without(_, _)
Without(seq, x) ==
    IF seq = <<>> THEN <<>>
    ELSE (IF Head(seq) = x THEN <<>> ELSE <<Head(seq)>>) \o Without(Tail(seq), x)

\* a sleep that is not capped
Uncapped(a, b) == a

Min(a, b) == IF a < b THEN a ELSE b

(***************************************************************************)
(* Data: texts and byte strings are sequences of symbols (strings); a      *)
(* content is a string (text) or an ArrayBuffer (bytes)                    *)
(***************************************************************************)
Absent == <<"absent">>
NoSha == <<"undefined">>
NoHint == -1
NoData == <<>>
NoError == <<>>

\* the concatenation of ss[lo..hi], by halves
RECURSIVE FlattenRange(_, _, _)
FlattenRange(ss, lo, hi) ==
    IF lo > hi THEN <<>>
    ELSE IF lo = hi THEN ss[lo]
    ELSE FlattenRange(ss, lo, (lo + hi) \div 2)
             \o FlattenRange(ss, (lo + hi) \div 2 + 1, hi)

Flatten(ss) == FlattenRange(ss, 1, Len(ss))

\* TextEncoder.encode: one byte per ASCII character, two for U+00E9
Utf8Char(ch) == IF ch = "U+00E9" THEN <<"0xC3", "0xA9">> ELSE <<ch>>
TextEncoder(text) == Flatten([i \in 1..Len(text) |-> Utf8Char(text[i])])

\* the bytes of a content: a string is UTF-8 encoded, an ArrayBuffer is taken as is
BytesOf(content) ==
    IF content.type = "string" THEN TextEncoder(content.data) ELSE content.data

\* crypto.subtle.digest("SHA-1", x) rendered in hex: an injective digest
sha1(x) == <<"sha1">> \o x

\* the blob hash git (and so the remote store) gives a byte string
BlobHash(bytes) == sha1(<<"blob ", ToString(Len(bytes)), "NUL">> \o bytes)

\* computeGitBlobSha(content)
computeGitBlobSha(content) == BlobHash(BytesOf(content))

\* arrayBufferToBase64, and the remote store's decoding of it
arrayBufferToBase64(bytes) == <<"base64">> \o bytes
atob(b64) == IF b64 # <<>> /\ Head(b64) = "base64" THEN Tail(b64) ELSE <<"garbage">> \o b64

(***************************************************************************)
(* Strings (sequences of symbols), slugs, front matter                     *)
(***************************************************************************)
\* String.prototype.startsWith
startsWith(str, prefix) ==
    Len(prefix) <= Len(str) /\ SubSeq(str, 1, Len(prefix)) = prefix

\* a comparison that is case-sensitive
sameCase(str) == str

toLowerCase(str) ==
    [i \in 1..Len(str) |->
       CASE str[i] \in {"Index", "INDEX"} -> "index"
         [] str[i] = "PNG" -> "png"
         [] OTHER -> str[i]]

Unsafe == {"\\", "/", ":", "*", "?", "\"", "<", ">", "|"}
Space == {" ", "\t"}

\* .replace(/[\\/:*?"<>|]/g, "-")
ReplaceUnsafe(str) == [i \in 1..Len(str) |-> IF str[i] \in Unsafe THEN "-" ELSE str[i]]

\* .replace(/\s+/g, "-")
RECURSIVE DropSpace(_)
DropSpace(str) ==
    IF str # <<>> /\ Head(str) \in Space THEN DropSpace(Tail(str)) ELSE str
RECURSIVE ReplaceSpaceRuns(_)
ReplaceSpaceRuns(str) ==
    IF str = <<>> THEN <<>>
    ELSE IF Head(str) \in Space THEN <<"-">> \o ReplaceSpaceRuns(DropSpace(str))
    ELSE <<Head(str)>> \o ReplaceSpaceRuns(Tail(str))

\* computeSlug(file)
computeSlug(file) ==
    LET slug == IF toLowerCase(file.basename) = <<"index">> /\ file.parent # NoData
                THEN file.parent ELSE file.basename
    IN ReplaceSpaceRuns(ReplaceUnsafe(slug))

\* a validator that looks at publish before it looks at draft
validatePublishFirst(frontmatter) ==
    IF frontmatter = NoData
    THEN [isValid |-> FALSE, ignore |-> TRUE, errors |-> <<"No frontmatter found">>]
    ELSE IF frontmatter.publish # "true" /\ frontmatter.draft # "false"
    THEN [isValid |-> FALSE, ignore |-> TRUE, errors |-> <<"Not marked for publishing">>]
    ELSE LET errors == (IF frontmatter.title THEN <<>> ELSE <<"Missing 'title' property">>)
                           \o (IF frontmatter.date THEN <<>> ELSE <<"Missing 'date' property">>)
         IN [isValid |-> errors = <<>>, ignore |-> FALSE, errors |-> errors]

\* FrontmatterValidator.validate(file, metadata); publish and draft are "true",
\* "false", "unset" or "other" (a value that is not a boolean), title and date
\* are TRUE when truthy
validate(frontmatter) ==
    IF frontmatter = NoData
    THEN [isValid |-> FALSE, ignore |-> TRUE, errors |-> <<"No frontmatter found">>]
    ELSE IF frontmatter.draft = "true"
    THEN [isValid |-> FALSE, ignore |-> TRUE, errors |-> <<"Marked as draft">>]
    ELSE IF frontmatter.publish # "true" /\ frontmatter.draft # "false"
    THEN [isValid |-> FALSE, ignore |-> TRUE, errors |-> <<"Not marked for publishing">>]
    ELSE LET errors == (IF frontmatter.title THEN <<>> ELSE <<"Missing 'title' property">>)
                           \o (IF frontmatter.date THEN <<>> ELSE <<"Missing 'date' property">>)
         IN [isValid |-> errors = <<>>, ignore |-> FALSE, errors |-> errors]

\* transformFrontmatter: the first 'publish: true|false' line becomes empty
RECURSIVE transformFrontmatter(_)
transformFrontmatter(lines) ==
    IF lines = <<>> THEN <<>>
    ELSE IF Head(lines) \in {"publish: true", "publish: false"}
    THEN <<"">> \o Tail(lines)
    ELSE <<Head(lines)>> \o transformFrontmatter(Tail(lines))

\* a decoder that takes every byte for a character
Latin1Decoder(bytes) == bytes

\* TextDecoder("utf-8").decode
TextDecoder(bytes) ==
    LET twoBytes(i) == i >= 1 /\ i < Len(bytes) /\ bytes[i] = "0xC3" /\ bytes[i + 1] = "0xA9"
    IN Flatten([i \in 1..Len(bytes) |->
                  IF twoBytes(i) THEN <<"U+00E9">>
                  ELSE IF twoBytes(i - 1) THEN <<>>
                  ELSE <<bytes[i]>>])

(***************************************************************************)
(* asset-processor: sanitizeFilename, isImageFile, processMarkdownAssets   *)
(*                                                                         *)
(* A text is a sequence of symbols; a symbol is one character or a run of  *)
(* characters that the two regular expressions treat alike.                *)
(***************************************************************************)
\* symbols that stand for characters outside [A-Za-z0-9._-] and outside \s
Punctuation ==
    {"(", ")", "[", "]", "!", "%", "%20", "U+00E9", "![[", "]]", "![", "](", "|"} \cup Unsafe

\* a class that holds every symbol
KeepsAll(ch) == TRUE

\* a symbol of characters of [a-zA-Z0-9._-]
InClass(ch) == ch \notin Punctuation /\ ch \notin Space

\* .replace(/[^a-zA-Z0-9._-]/g, "")
RECURSIVE RemoveOutsideClass(_)
RemoveOutsideClass(str) ==
    IF str = <<>> THEN <<>>
    ELSE (IF InClass(Head(str)) THEN <<Head(str)>> ELSE <<>>)
             \o RemoveOutsideClass(Tail(str))

\* sanitizeFilename(filename)
sanitizeFilename(filename) == RemoveOutsideClass(ReplaceSpaceRuns(filename))

IMAGE_EXTENSIONS == {"png", "jpg", "jpeg", "gif", "svg", "webp", "avif", "bmp", "ico"}

\* the allow-list compared with the extension as it is written
isImageFileExact(file) == file.extension \in IMAGE_EXTENSIONS

\* isImageFile(file)
isImageFile(file) == toLowerCase(<<file.extension>>)[1] \in IMAGE_EXTENSIONS

\* the files and folders of the vault other than its notes, as the metadata
\* cache and vault.getFiles() list them
ImgFile ==
    [path |-> <<"img.png">>, name |-> <<"img.png">>, basename |-> <<"img">>,
     extension |-> "png", folder |-> FALSE, bytes |-> <<"png">>]
TestFile ==
    [path |-> <<"images", "/", "test", ".png">>, name |-> <<"test", ".png">>,
     basename |-> <<"test">>, extension |-> "png", folder |-> FALSE, bytes |-> <<"t">>]
SpacedFile ==
    [path |-> <<"images", "/", "my", " ", "image", ".PNG">>,
     name |-> <<"my", " ", "image", ".PNG">>,
     basename |-> <<"my", " ", "image">>,
     extension |-> "PNG", folder |-> FALSE, bytes |-> <<"m">>]
\* a file whose name differs from that of SpacedFile by the space only
DashedFile ==
    [path |-> <<"my", "-", "image", ".PNG">>, name |-> <<"my", "-", "image", ".PNG">>,
     basename |-> <<"my", "-", "image">>,
     extension |-> "PNG", folder |-> FALSE, bytes |-> <<"d">>]
PdfFile ==
    [path |-> <<"doc", ".pdf">>, name |-> <<"doc", ".pdf">>, basename |-> <<"doc">>,
     extension |-> "pdf", folder |-> FALSE, bytes |-> <<"p">>]
ImagesFolder ==
    [path |-> <<"images">>, name |-> <<"images">>, basename |-> <<"images">>,
     extension |-> "", folder |-> TRUE, bytes |-> <<>>]
VaultIndex == <<ImgFile, TestFile, SpacedFile, PdfFile, ImagesFolder, DashedFile>>

First(hits) == CHOOSE i \in hits : \A j \in hits : i <= j

\* app.metadataCache.getFirstLinkpathDest(linkpath, sourcePath): the entry at
\* that path, else the file of that name, else null
getFirstLinkpathDest(linkpath) ==
    LET atPath == {i \in 1..Len(VaultIndex) : VaultIndex[i].path = linkpath}
        named == {i \in 1..Len(VaultIndex) :
                     ~VaultIndex[i].folder /\ VaultIndex[i].name = linkpath}
    IN IF atPath # {} THEN VaultIndex[First(atPath)]
       ELSE IF named # {} THEN VaultIndex[First(named)]
       ELSE NoData

\* a fallback that takes the first file of the vault, whatever its name
findFirstFile(name) == VaultIndex[1]

\* app.vault.getFiles().find((f) => f.name === name) ?? null
findByName(name) ==
    LET named == {i \in 1..Len(VaultIndex) :
                     ~VaultIndex[i].folder /\ VaultIndex[i].name = name}
    IN IF named = {} THEN NoData ELSE VaultIndex[First(named)]

\* decodeURIComponent: %20 is a space, a % that starts no escape is an error
Malformed(str) == \E i \in 1..Len(str) : str[i] = "%"
decodeURIComponent(str) == [i \in 1..Len(str) |-> IF str[i] = "%20" THEN " " ELSE str[i]]

\* linkPath.split("/").pop()
RECURSIVE LastSegment(_)
LastSegment(str) ==
    IF \E i \in 1..Len(str) : str[i] = "/" THEN LastSegment(Tail(str)) ELSE str

\* the first index from i on whose symbol is in stop, or Len(text) + 1
RECURSIVE RunEnd(_, _, _)
RunEnd(text, i, stop) ==
    IF i > Len(text) THEN i
    ELSE IF text[i] \in stop THEN i
    ELSE RunEnd(text, i + 1, stop)

NoMatch == [end |-> 0]

\* /!\[\[([^\]|]+)(?:\|[^\]]*)?\]\]/ anchored at i
wikilinkRegex(text, i) ==
    IF text[i] # "![[" THEN NoMatch
    ELSE LET j == RunEnd(text, i + 1, {"]]", "](", "]", "|"}) IN
         IF j = i + 1 \/ j > Len(text) THEN NoMatch
         ELSE IF text[j] = "]]" THEN [end |-> j, linkText |-> SubSeq(text, i + 1, j - 1)]
         ELSE IF text[j] = "|"
         THEN LET k == RunEnd(text, j + 1, {"]]", "](", "]"}) IN
              IF k > Len(text) THEN NoMatch
              ELSE IF text[k] = "]]"
              THEN [end |-> k, linkText |-> SubSeq(text, i + 1, j - 1)]
              ELSE NoMatch
         ELSE NoMatch

\* /!\[([^\]]*)\]\(([^)]+)\)/ anchored at i; the text of "![[" is "![" and "["
mdLinkRegex(text, i) ==
    IF text[i] \notin {"![", "![["} THEN NoMatch
    ELSE LET j == RunEnd(text, i + 1, {"]]", "](", "]"}) IN
         IF j > Len(text) THEN NoMatch
         ELSE IF text[j] # "](" THEN NoMatch
         ELSE LET k == RunEnd(text, j + 1, {")"}) IN
              IF k = j + 1 \/ k > Len(text) THEN NoMatch
              ELSE [end |-> k,
                    altText |-> (IF text[i] = "![[" THEN <<"[">> ELSE <<>>)
                                    \o SubSeq(text, i + 1, j - 1),
                    linkPath |-> SubSeq(text, j + 1, k - 1)]

\* a link to the full target path in place of the bare file name
targetPathLink(caption, name) ==
    <<"![">> \o caption \o <<"](", "c", "/", "my-post", "/">> \o name \o <<")">>

\* `![${caption}](${name})`
imageLink(caption, name) ==
    (IF caption # <<>> /\ Head(caption) = "["
     THEN <<"![[">> \o Tail(caption) ELSE <<"![">> \o caption)
        \o <<"](">> \o name \o <<")">>

\* the least index at which pattern occurs in str, or 0
RECURSIVE indexOfFrom(_, _, _)
indexOfFrom(str, pattern, i) ==
    IF i + Len(pattern) - 1 > Len(str) THEN 0
    ELSE IF SubSeq(str, i, i + Len(pattern) - 1) = pattern THEN i
    ELSE indexOfFrom(str, pattern, i + 1)

\* str.replace(pattern, replacement) with a string pattern: the first occurrence
\* (no replacement here holds a $ pattern)
replace(str, pattern, replacement) ==
    LET at == indexOfFrom(str, pattern, 1) IN
    IF at = 0 THEN str
    ELSE SubSeq(str, 1, at - 1) \o replacement
             \o SubSeq(str, at + Len(pattern), Len(str))

\* processedLinks.set(key, value)
MapSet(map, key, value) ==
    [k \in DOMAIN map \cup {key} |-> IF k = key THEN value ELSE map[k]]

\* assets.find((a) => a.vaultFile.path === linkedFile.path) finds nothing
NoAssetOf(assets, linkedFile) ==
    \A n \in 1..Len(assets) : assets[n].vaultFile.path # linkedFile.path

\* what processMarkdownAssets holds on entry; consulted lists the link paths
\* handed to the resolver
NewExtraction(content) ==
    [rewrittenMarkdown |-> content, assets |-> <<>>, warnings |-> <<>>,
     processedLinks |-> <<>>, consulted |-> <<>>, threw |-> FALSE]

\* assets.push(...), processedLinks.set(...), rewrittenMarkdown.replace(...)
Rewritten(st, linkedFile, fullMatch, caption, targetDirectory, push) ==
    LET sanitizedName == sanitizeFilename(linkedFile.name)
        replacement == imageLink(caption, sanitizedName)
    IN [st EXCEPT
          !.assets = IF push
                     THEN Append(@, [vaultFile |-> linkedFile,
                                     originalLink |-> fullMatch,
                                     targetFilename |-> sanitizedName,
                                     targetPath |-> targetDirectory \o <<"/">>
                                                        \o sanitizedName])
                     ELSE @,
          !.processedLinks = MapSet(@, fullMatch, replacement),
          !.rewrittenMarkdown = replace(@, fullMatch, replacement)]

\* the body of the first while loop for one match
wikilinkStep(fullMatch, linkText, st, targetDirectory) ==
    IF fullMatch \in DOMAIN st.processedLinks
    THEN [st EXCEPT !.rewrittenMarkdown = replace(@, fullMatch, st.processedLinks[fullMatch])]
    ELSE LET linkedFile == getFirstLinkpathDest(linkText)
             st1 == [st EXCEPT !.consulted = Append(@, linkText)]
         IN IF linkedFile = NoData
            THEN [st1 EXCEPT !.warnings =
                     Append(@, <<"Could not resolve wikilink: ">> \o linkText)]
            ELSE IF linkedFile.folder
            THEN [st1 EXCEPT !.warnings =
                     Append(@, <<"Link resolves to folder, not file: ">> \o linkText)]
            ELSE IF ~isImageFile(linkedFile) THEN st1
            ELSE Rewritten(st1, linkedFile, fullMatch, linkedFile.basename,
                           targetDirectory, TRUE)

\* while ((match = wikilinkRegex.exec(content)) !== null)
RECURSIVE wikilinkPass(_, _, _, _)
wikilinkPass(content, i, st, targetDirectory) ==
    IF i > Len(content) THEN st
    ELSE IF wikilinkRegex(content, i).end = 0
    THEN wikilinkPass(content, i + 1, st, targetDirectory)
    ELSE wikilinkPass(content, wikilinkRegex(content, i).end + 1,
                      wikilinkStep(SubSeq(content, i, wikilinkRegex(content, i).end),
                                   wikilinkRegex(content, i).linkText, st,
                                   targetDirectory),
                      targetDirectory)

\* the lookup of the second loop: by link path, then by bare file name
resolveImageLink(linkPath) ==
    LET direct == getFirstLinkpathDest(decodeURIComponent(linkPath))
        nameOnly == LastSegment(linkPath)
    IN IF direct # NoData THEN direct
       ELSE IF nameOnly = <<>> THEN NoData
       ELSE findByName(decodeURIComponent(nameOnly))

\* the body of the second while loop for one match
mdLinkStep(fullMatch, altText, linkPath, st, targetDirectory) ==
    IF startsWith(linkPath, <<"http://">>) \/ startsWith(linkPath, <<"https://">>) THEN st
    ELSE IF startsWith(linkPath, <<"data:">>) THEN st
    ELSE IF fullMatch \in DOMAIN st.processedLinks
    THEN [st EXCEPT !.rewrittenMarkdown = replace(@, fullMatch, st.processedLinks[fullMatch])]
    ELSE IF Malformed(linkPath) THEN [st EXCEPT !.threw = TRUE]
    ELSE LET linkedFile == resolveImageLink(linkPath)
             st1 == [st EXCEPT !.consulted = Append(@, decodeURIComponent(linkPath))]
         IN IF linkedFile = NoData
            THEN [st1 EXCEPT !.warnings =
                     Append(@, <<"Could not resolve image link: ">> \o linkPath)]
            ELSE IF linkedFile.folder
            THEN [st1 EXCEPT !.warnings =
                     Append(@, <<"Link resolves to folder, not file: ">> \o linkPath)]
            ELSE IF ~isImageFile(linkedFile) THEN st1
            ELSE Rewritten(st1, linkedFile, fullMatch, altText, targetDirectory,
                           NoAssetOf(st1.assets, linkedFile))

\* while ((match = mdLinkRegex.exec(content)) !== null); a URIError ends the call
RECURSIVE mdLinkPass(_, _, _, _)
mdLinkPass(content, i, st, targetDirectory) ==
    IF i > Len(content) \/ st.threw THEN st
    ELSE IF mdLinkRegex(content, i).end = 0
    THEN mdLinkPass(content, i + 1, st, targetDirectory)
    ELSE mdLinkPass(content, mdLinkRegex(content, i).end + 1,
                    mdLinkStep(SubSeq(content, i, mdLinkRegex(content, i).end),
                               mdLinkRegex(content, i).altText,
                               mdLinkRegex(content, i).linkPath, st, targetDirectory),
                    targetDirectory)

\* processMarkdownAssets(app, sourceFile, content, targetDirectory)
processMarkdownAssets(content, targetDirectory) ==
    mdLinkPass(content, 1, wikilinkPass(content, 1, NewExtraction(content), targetDirectory),
               targetDirectory)

(***************************************************************************)
(* The manifest and its JSON text                                          *)
(***************************************************************************)
MANIFEST_PATH == <<".vault-publish", "/", "manifest.json">>
Q == "\""
Quote(str) == <<Q>> \o str \o <<Q>>

\* createEmptyManifest()
\* new Date().toISOString()
toISOString(now) == <<ToString(now)>>

createEmptyManifest(now) ==
    [version |-> 1, lastPublish |-> toISOString(now), posts |-> <<>>, nullPosts |-> FALSE]

StringifyPost(post) ==
    Quote(post.slug) \o <<":", "{", "\"vaultPath\":">> \o Quote(post.vaultPath)
        \o <<"\"repoPath\":">> \o Quote(post.repoPath)
        \o <<"\"assets\":", "[">>
        \o Flatten([i \in 1..Len(post.assets) |-> Quote(post.assets[i])])
        \o <<"]", "\"contentSha\":">> \o Quote(post.contentSha) \o <<"}">>

\* JSON.stringify(manifest, null, 2): keys in insertion order
JSONstringify(m) ==
    <<"{", "\"version\":", ToString(m.version), "\"lastPublish\":">>
        \o Quote(m.lastPublish) \o <<"\"posts\":">>
        \o (IF m.nullPosts THEN <<"null">>
            ELSE <<"{">> \o Flatten([i \in 1..Len(m.posts) |-> StringifyPost(m.posts[i])])
                 \o <<"}">>)
        \o <<"}">>

Fail == [ok |-> FALSE]
Expect(toks, i, lits) ==
    i + Len(lits) - 1 <= Len(toks) /\ SubSeq(toks, i, i + Len(lits) - 1) = lits

RECURSIVE IndexOfQuote(_, _)
IndexOfQuote(toks, i) ==
    IF i > Len(toks) THEN 0 ELSE IF toks[i] = Q THEN i ELSE IndexOfQuote(toks, i + 1)

ReadString(toks, i) ==
    IF i > Len(toks) \/ ~Expect(toks, i, <<Q>>) THEN Fail
    ELSE LET j == IndexOfQuote(toks, i + 1) IN
         IF j = 0 THEN Fail
         ELSE [ok |-> TRUE, val |-> SubSeq(toks, i + 1, j - 1), next |-> j + 1]

\* the elements of an array up to its closing bracket
RECURSIVE ReadStrings(_, _, _)
ReadStrings(toks, i, acc) ==
    IF i > Len(toks) THEN Fail
    ELSE IF toks[i] = "]" THEN [ok |-> TRUE, val |-> acc, next |-> i + 1]
    ELSE LET More(str) == IF ~str.ok THEN Fail
                          ELSE ReadStrings(toks, str.next, Append(acc, str.val))
         IN More(ReadString(toks, i))

\* the fields of a ManifestPost, in the order JSON.stringify writes them
PostKeys ==
    <<[name |-> "vaultPath", token |-> "\"vaultPath\":", array |-> FALSE],
      [name |-> "repoPath", token |-> "\"repoPath\":", array |-> FALSE],
      [name |-> "assets", token |-> "\"assets\":", array |-> TRUE],
      [name |-> "contentSha", token |-> "\"contentSha\":", array |-> FALSE]>>

RECURSIVE ReadFields(_, _, _, _)
ReadFields(toks, i, k, post) ==
    IF k > Len(PostKeys)
    THEN IF Expect(toks, i, <<"}">>) THEN [ok |-> TRUE, val |-> post, next |-> i + 1]
         ELSE Fail
    ELSE IF ~Expect(toks, i, <<PostKeys[k].token>>) THEN Fail
    ELSE LET Field(read) ==
                 IF ~read.ok THEN Fail
                 ELSE ReadFields(toks, read.next, k + 1,
                                 [post EXCEPT ![PostKeys[k].name] = read.val])
         IN Field(IF ~PostKeys[k].array THEN ReadString(toks, i + 1)
                  ELSE IF Expect(toks, i + 1, <<"[">>) THEN ReadStrings(toks, i + 2, <<>>)
                  ELSE Fail)

ReadPost(toks, i) ==
    LET Fields(slug) ==
            IF ~slug.ok \/ ~Expect(toks, slug.next, <<":", "{">>) THEN Fail
            ELSE ReadFields(toks, slug.next + 2, 1,
                            [slug |-> slug.val, vaultPath |-> <<>>, repoPath |-> <<>>,
                             assets |-> <<>>, contentSha |-> <<>>])
    IN Fields(ReadString(toks, i))

\* posts[slug] = post: a new key goes last, an existing key keeps its place
SetPost(posts, post) ==
    IF \E i \in 1..Len(posts) : posts[i].slug = post.slug
    THEN [i \in 1..Len(posts) |-> IF posts[i].slug = post.slug THEN post ELSE posts[i]]
    ELSE Append(posts, post)

RECURSIVE ReadPosts(_, _, _)
ReadPosts(toks, i, acc) ==
    IF i > Len(toks) THEN Fail
    ELSE IF toks[i] = "}" THEN [ok |-> TRUE, val |-> acc, next |-> i + 1]
    ELSE LET More(post) == IF ~post.ok THEN Fail
                           ELSE ReadPosts(toks, post.next, SetPost(acc, post.val))
         IN More(ReadPost(toks, i))

Digits == 0..9

\* JSON.parse(text) of a manifest file: [ok |-> FALSE] stands for a SyntaxError;
\* nullPosts tells a posts field that is null from one that is an object
JSONparse(toks) ==
    LET Parsed(version, lastPublish, posts, nullPosts) ==
            [ok |-> TRUE, val |-> [version |-> version, lastPublish |-> lastPublish,
                                   posts |-> posts, nullPosts |-> nullPosts]]
        Close(version, lastPublish, posts) ==
            IF ~posts.ok \/ ~Expect(toks, posts.next, <<"}">>) \/ Len(toks) # posts.next
            THEN Fail
            ELSE Parsed(version, lastPublish, posts.val, FALSE)
        Posts(version, lastPublish) ==
            IF ~lastPublish.ok \/ ~Expect(toks, lastPublish.next, <<"\"posts\":">>)
            THEN Fail
            ELSE IF Expect(toks, lastPublish.next + 1, <<"null", "}">>)
                      /\ Len(toks) = lastPublish.next + 2
            THEN Parsed(version, lastPublish.val, <<>>, TRUE)
            ELSE IF ~Expect(toks, lastPublish.next + 1, <<"{">>) THEN Fail
            ELSE Close(version, lastPublish.val,
                       ReadPosts(toks, lastPublish.next + 2, <<>>))
    IN IF ~Expect(toks, 1, <<"{", "\"version\":">>) \/ Len(toks) < 4
             \/ ~(\E v \in Digits : ToString(v) = toks[3])
             \/ ~Expect(toks, 4, <<"\"lastPublish\":">>)
       THEN Fail
       ELSE Posts(CHOOSE v \in Digits : ToString(v) = toks[3], ReadString(toks, 5))

(***************************************************************************)
(* The remote store behind requestUrl: a file tree, path -> bytes          *)
(***************************************************************************)
\* the files of tree s below directory path
Below(path, s) ==
    {q \in DOMAIN s : IF s[q] = Absent THEN FALSE
                      ELSE /\ Len(q) > Len(path) + 1
                           /\ SubSeq(q, 1, Len(path) + 1) = path \o <<"/">>}

\* the array the contents API answers for a directory: its files, and its
\* subdirectories once each
Listing(path, s) ==
    {LET rest == SubSeq(q, Len(path) + 2, Len(q))
         isFile == \A k \in 1..Len(rest) : rest[k] # "/"
         cut == IF isFile THEN Len(rest)
                ELSE (CHOOSE k \in 1..Len(rest) :
                         rest[k] = "/" /\ \A j \in 1..(k - 1) : rest[j] # "/") - 1
         name == SubSeq(rest, 1, cut)
     IN [name |-> name, path |-> path \o <<"/">> \o name,
         sha |-> IF isFile THEN BlobHash(s[q]) ELSE sha1(<<"tree", path \o <<"/">> \o name>>),
         type |-> IF isFile THEN "file" ELSE "dir"] : q \in Below(path, s)}

\* what the contents API answers to one request it receives, and the new tree
Serve(method, path, body, s) ==
    LET exists == IF path \in DOMAIN s THEN s[path] # Absent ELSE FALSE IN
    CASE method = "GET" ->
           IF exists
           THEN [store |-> s, status |-> "2xx",
                 data |-> [sha |-> BlobHash(s[path]),
                           content |-> arrayBufferToBase64(s[path]),
                           encoding |-> "base64"]]
           ELSE IF Below(path, s) # {}
           THEN [store |-> s, status |-> "2xx", data |-> [entries |-> Listing(path, s)]]
           ELSE [store |-> s, status |-> "404", data |-> NoData]
      [] method = "PUT" ->
           IF (exists /\ body.sha = BlobHash(s[path])) \/ (~exists /\ body.sha = NoSha)
           THEN LET bytes == atob(body.content) IN
                [store |-> [s EXCEPT ![path] = bytes], status |-> "2xx",
                 data |-> [content |-> [sha |-> BlobHash(bytes)]]]
           ELSE [store |-> s, status |-> "other", data |-> NoData]
      [] method = "DELETE" ->
           IF ~exists THEN [store |-> s, status |-> "404", data |-> NoData]
           ELSE IF body.sha = BlobHash(s[path])
           THEN [store |-> [s EXCEPT ![path] = Absent], status |-> "2xx",
                 data |-> [commit |-> "deleted"]]
           ELSE [store |-> s, status |-> "other", data |-> NoData]

\* One attempt as the network lets it go: "ok" reaches the store and the answer
\* comes back; "lost" reaches the store and the answer is lost (requestUrl
\* throws); "throw" never reaches it; "rate" (403/429, with or without a
\* retry-after header) and "other" (any other status) are answered unserved.
EventKinds == {"ok", "lost", "throw", "rate", "other"}
Hints == {NoHint, 2, 60}
Events ==
    {[kind |-> k, hint |-> NoHint] : k \in EventKinds \ {"rate"}}
        \cup {[kind |-> "rate", hint |-> h] : h \in Hints}

requestUrl(method, path, body, s, ev) ==
    IF ev.kind \in {"ok", "lost"}
    THEN LET r == Serve(method, path, body, s) IN
         IF ev.kind = "ok" THEN [r EXCEPT !.data = [json |-> r.data, hint |-> NoHint]]
         ELSE [store |-> r.store, status |-> "throw", data |-> NoData]
    ELSE [store |-> s, status |-> ev.kind,
          data |-> IF ev.kind = "rate" THEN [json |-> NoData, hint |-> ev.hint] ELSE NoData]

(***************************************************************************)
(* GitHubClient.request: the retry loop between acquire and release        *)
(***************************************************************************)
\* a loop that runs once more (attempt <= retries)
OneMoreAttempt(attempt) == attempt <= retries

\* the loop's condition: attempt < retries
MoreAttempts(attempt) == attempt < retries

\* a client that does not know "not found"
NeverNotFound(status) == FALSE

\* response.status === 404
NotFound(status) == status = "404"

\* for (attempt = 0; attempt < retries; attempt++) { ... } throw lastError ?? ...
\* evs[i] is what happens to the i-th attempt; loc holds backoffMs and lastError,
\* and as history the sleeps made (slept: attempt, backoffMs before it, ms
\* slept after it) and the statuses seen so far
RECURSIVE requestLoop(_, _, _, _, _, _, _)
requestLoop(method, path, body, evs, attempt, loc, s) ==
    IF ~MoreAttempts(attempt)
    THEN [status |-> "raise", data |-> NoData,
          error |-> IF loc.lastError = NoError
                    THEN <<"Request failed after retries", 0>> ELSE loc.lastError,
          attempts |-> attempt, seen |-> loc.seen, sleeps |-> loc.sleeps,
          slept |-> loc.slept, backoffMs |-> loc.backoffMs, store |-> s]
    ELSE LET r == requestUrl(method, path, body, s, evs[attempt + 1]) IN
         CASE r.status = "2xx" ->
                [status |-> "2xx", data |-> r.data.json, error |-> NoError,
                 attempts |-> attempt + 1, seen |-> Append(loc.seen, r.status),
                 sleeps |-> loc.sleeps, slept |-> loc.slept,
                 backoffMs |-> loc.backoffMs, store |-> r.store]
           [] r.status # "2xx" /\ NotFound(r.status) ->
                [status |-> "404", data |-> NoData, error |-> NoError,
                 attempts |-> attempt + 1, seen |-> Append(loc.seen, r.status),
                 sleeps |-> loc.sleeps, slept |-> loc.slept,
                 backoffMs |-> loc.backoffMs, store |-> r.store]
           [] r.status = "rate" ->
                LET waitTime == IF r.data.hint # NoHint
                                THEN r.data.hint * 1000 ELSE loc.backoffMs
                IN requestLoop(method, path, body, evs, attempt + 1,
                       [loc EXCEPT !.sleeps = Append(@, Min(waitTime, 30000)),
                                   !.slept = Append(@, <<attempt + 1, loc.backoffMs,
                                                         Min(waitTime, 30000)>>),
                                   !.backoffMs = @ * 2,
                                   !.seen = Append(@, r.status)], r.store)
           [] r.status = "throw" ->
                requestLoop(method, path, body, evs, attempt + 1,
                    [loc EXCEPT !.lastError = <<"requestUrl failed", attempt + 1>>,
                                !.sleeps = Append(@, loc.backoffMs),
                                !.slept = Append(@, <<attempt + 1, loc.backoffMs,
                                                      loc.backoffMs>>),
                                !.backoffMs = @ * 2,
                                !.seen = Append(@, r.status)], r.store)
           [] OTHER ->
                requestLoop(method, path, body, evs, attempt + 1,
                    [loc EXCEPT !.lastError = <<"GitHub API error", attempt + 1>>,
                                !.seen = Append(@, r.status)],
                    r.store)

\* what the network does to up to retries + 1 attempts of one request
EventSeqs == [1..(retries + 1) -> Events]

request(method, path, body, evs, s) ==
    requestLoop(method, path, body, evs, 0,
                [backoffMs |-> 1000, lastError |-> NoError, sleeps |-> <<>>,
                 slept |-> <<>>, seen |-> <<>>], s)

\* The attempts as the callers of request() can tell them apart: served, served
\* with the answer lost, or not served. (A rate-limit or other-status answer
\* leaves the tree and the caller exactly where an unserved attempt does;
\* SpecRequest goes through them one by one.)
NetSeqs == [1..retries -> {e \in Events : e.kind \in {"ok", "lost", "throw"}}]

\* every way one request() call can end against tree s: what the caller gets and
\* the tree it leaves
Outcomes(method, path, body, s) ==
    {LET r == request(method, path, body, evs, s)
     IN [status |-> r.status, data |-> r.data, store |-> r.store] : evs \in NetSeqs}

\* the way it ends when the network loses nothing
Clean(method, path, body, s) ==
    LET r == request(method, path, body, [i \in 1..retries |-> [kind |-> "ok", hint |-> NoHint]], s)
    IN [status |-> r.status, data |-> r.data, store |-> r.store]

(***************************************************************************)
(* GitHubClient.getFileSha / createOrUpdateFile / deleteFile               *)
(***************************************************************************)
\* a lookup that answers an empty digest instead of null
getFileShaOrEmpty(o) ==
    IF o.status = "404" \/ o.data = NoData THEN <<"">>
    ELSE IF "sha" \in DOMAIN o.data THEN o.data.sha ELSE <<"">>

\* getFileSha: null on 404 or empty data, else data.sha (undefined for the
\* array a directory answers)
getFileSha(o) ==
    IF o.status = "404" \/ o.data = NoData THEN NoSha
    ELSE IF "sha" \in DOMAIN o.data THEN o.data.sha ELSE NoSha

\* Array.isArray(result.data)
isArray(data) == "entries" \in DOMAIN data

\* listDirectory: [] on 404, empty data or a file; else the entries, typed
\* "dir" or "file"
listDirectory(o) ==
    IF o.status = "404" \/ o.data = NoData THEN {}
    ELSE IF ~isArray(o.data) THEN {}
    ELSE {[name |-> item.name, path |-> item.path, sha |-> item.sha,
           type |-> IF item.type = "dir" THEN "dir" ELSE "file"] : item \in o.data.entries}

\* a digest of the base64 text instead of the raw bytes
digestOfBase64(content) == BlobHash(arrayBufferToBase64(BytesOf(content)))

\* the digest createOrUpdateFile compares with the remote one
localShaOf(content) == computeGitBlobSha(content)

\* createOrUpdateFile is called: nothing requested yet
NewWrite(path, content) ==
    [path |-> path, content |-> content, phase |-> "lookup",
     existingSha |-> NoSha, remoteBefore |-> Absent,
     gets |-> 0, puts |-> 0,
     raised |-> FALSE, uploaded |-> FALSE, sha |-> NoSha]

\* existingSha = await getFileSha(path) ended as o; localSha is computed and
\* compared: identical content returns {uploaded: false, sha: existingSha}
AfterLookup(call, o, before) ==
    IF o.status = "raise"
    THEN [call EXCEPT !.phase = "done", !.raised = TRUE, !.gets = @ + 1,
                      !.remoteBefore = before]
    ELSE LET existingSha == getFileSha(o)
             localSha == localShaOf(call.content)
         IN IF existingSha # NoSha /\ existingSha = localSha
            THEN [call EXCEPT !.phase = "done", !.uploaded = FALSE,
                              !.sha = existingSha, !.existingSha = existingSha,
                              !.gets = @ + 1, !.remoteBefore = before]
            ELSE [call EXCEPT !.phase = "put", !.existingSha = existingSha,
                              !.gets = @ + 1, !.remoteBefore = before]

\* a payload that never carries sha
PayloadWithoutSha(call) ==
    [content |-> arrayBufferToBase64(BytesOf(call.content)), sha |-> NoSha]

\* the payload of the PUT: base64 of the bytes, and sha when the file existed
Payload(call) ==
    [content |-> arrayBufferToBase64(BytesOf(call.content)), sha |-> call.existingSha]

\* the PUT ended as o: no data throws, else {uploaded: true, sha: data.content.sha}
AfterPut(call, o) ==
    IF o.status = "raise" \/ o.data = NoData
    THEN [call EXCEPT !.phase = "done", !.raised = TRUE, !.puts = @ + 1]
    ELSE [call EXCEPT !.phase = "done", !.uploaded = TRUE,
                      !.sha = o.data.content.sha, !.puts = @ + 1]

(***************************************************************************)
(* SyncManifestManager and the pure parts of Publisher.publishAll          *)
(***************************************************************************)
\* getFileContent: null on 404 or empty data or a foreign encoding, else the
\* UTF-8 text of the decoded base64 content
getFileContent(o) ==
    IF o.status = "404" \/ o.data = NoData THEN NoData
    ELSE IF "encoding" \notin DOMAIN o.data THEN NoData
    ELSE IF o.data.encoding = "base64" THEN TextDecoder(atob(o.data.content))
    ELSE NoData

\* what loadManifest makes of the text it read (parsed, version 1, posts an
\* object; typeof null is "object" too), else an empty manifest
AcceptManifest(content, now) ==
    IF content = NoData \/ content = <<>> THEN createEmptyManifest(now)
    ELSE LET Accept(parsed) == IF parsed.ok /\ parsed.val.version = 1 THEN parsed.val
                               ELSE createEmptyManifest(now)
         IN Accept(JSONparse(content))

\* loadManifest: the read ended as o; a raise is caught
loadManifest(o, now) ==
    IF o.status = "raise" THEN createEmptyManifest(now)
    ELSE AcceptManifest(getFileContent(o), now)

\* registerPublishedPost
registerPublishedPost(m, slug, vaultPath, repoPath, assets, contentSha) ==
    [m EXCEPT !.posts = SetPost(@, [slug |-> slug, vaultPath |-> vaultPath,
                                    repoPath |-> repoPath, assets |-> assets,
                                    contentSha |-> contentSha])]

\* hasPostChanged(slug, newContentSha): posts[slug] of a null posts throws a
\* TypeError; an inherited property is truthy and has no contentSha
hasPostChanged(currentManifest, slug, newContentSha) ==
    IF currentManifest = NoData THEN [threw |-> FALSE, value |-> TRUE]
    ELSE IF currentManifest.nullPosts THEN [threw |-> TRUE, value |-> TRUE]
    ELSE LET posts == currentManifest.posts
             own == {i \in 1..Len(posts) : posts[i].slug = slug}
         IN IF own = {} THEN [threw |-> FALSE, value |-> TRUE]
            ELSE [threw |-> FALSE,
                  value |-> posts[CHOOSE i \in own : TRUE].contentSha # newContentSha]

\* property names every object inherits from Object.prototype
InheritedKeys ==
    {<<"constructor">>, <<"toString">>, <<"valueOf">>, <<"hasOwnProperty">>,
     <<"isPrototypeOf">>, <<"propertyIsEnumerable">>, <<"toLocaleString">>}

\* slug in newManifest.posts: the in operator also finds inherited properties
HasSlug(posts, slug) ==
    slug \in InheritedKeys \/ \E i \in 1..Len(posts) : posts[i].slug = slug

RECURSIVE SelectPaths(_, _)
SelectPaths(paths, contentDirectory) ==
    IF paths = <<>> THEN <<>>
    ELSE (IF startsWith(Head(paths), contentDirectory) THEN <<Head(paths)>> ELSE <<>>)
             \o SelectPaths(Tail(paths), contentDirectory)

\* the asset paths of a removed post, without a safety check
AllAssets(oldPost, contentDirectory) == oldPost.assets

\* the asset paths of a removed post that pass the safety check
KeptAssets(oldPost, contentDirectory) == SelectPaths(oldPost.assets, contentDirectory)

\* the entries of the old manifest whose slug is not in the new one
RECURSIVE Removed(_, _)
Removed(old, new) ==
    IF old = <<>> THEN <<>>
    ELSE (IF HasSlug(new, Head(old).slug) THEN <<>> ELSE <<Head(old)>>)
             \o Removed(Tail(old), new)

\* computeDeleteOperations: Object.entries(null) throws a TypeError
computeDeleteOperations(currentManifest, newManifest, contentDirectory) ==
    IF currentManifest = NoData
    THEN [threw |-> FALSE, pathsToDelete |-> <<>>, removedSlugs |-> <<>>]
    ELSE IF currentManifest.nullPosts
    THEN [threw |-> TRUE, pathsToDelete |-> <<>>, removedSlugs |-> <<>>]
    ELSE LET old == currentManifest.posts
             removed == Removed(old, newManifest.posts)
         IN [threw |-> FALSE,
             removedSlugs |-> [i \in 1..Len(removed) |-> removed[i].slug],
             pathsToDelete |->
                 Flatten([i \in 1..Len(removed) |->
                     SelectPaths(<<removed[i].repoPath>>, contentDirectory)
                         \o KeptAssets(removed[i], contentDirectory)])]

\* createEmptySummary()
createEmptySummary ==
    [postsPublished |-> 0, postsSkipped |-> 0, postsInvalid |-> 0,
     assetsUploaded |-> 0, assetsSkipped |-> 0, filesDeleted |-> 0,
     warnings |-> <<>>, errors |-> <<>>]

\* the eligibility filter of publishAll over files[from..]
RECURSIVE Eligible(_, _, _, _)
Eligible(files, from, eligibleFiles, summary) ==
    IF from > Len(files) THEN [eligibleFiles |-> eligibleFiles, summary |-> summary]
    ELSE LET file == files[from]
             validation == validate(file.frontmatter)
         IN IF validation.ignore
            THEN Eligible(files, from + 1, eligibleFiles,
                          [summary EXCEPT !.postsSkipped = @ + 1])
            ELSE IF ~validation.isValid
            THEN Eligible(files, from + 1, eligibleFiles,
                          [summary EXCEPT
                              !.postsInvalid = @ + 1,
                              !.warnings = @ \o [i \in 1..Len(validation.errors) |->
                                                   <<file.name, validation.errors[i]>>]])
            ELSE Eligible(files, from + 1, Append(eligibleFiles, file), summary)

\* `${contentDirectory}/${slug}` and `${targetDir}/index.md`
targetDirOf(contentDirectory, slug) == contentDirectory \o <<"/">> \o slug
indexOf(targetDir) == targetDir \o <<"/", "index.md">>

\* the ProcessedContent of an extraction (no document of the vaults below
\* holds a malformed escape, so the call returns)
ProcessedContent(st) ==
    [rewrittenMarkdown |-> st.rewrittenMarkdown, assets |-> st.assets,
     warnings |-> st.warnings]

\* const content = await this.app.vault.read(file);
\* const processed = processMarkdownAssets(this.app, file, content, targetDir)
processedOf(file, targetDir) ==
    ProcessedContent(processMarkdownAssets(file.text, targetDir))

\* result.warnings.filter(w => w.startsWith("Asset:"))
RECURSIVE AssetWarnings(_)
AssetWarnings(warnings) ==
    IF warnings = <<>> THEN <<>>
    ELSE (IF Head(Head(warnings)) = "Asset:" THEN <<Head(warnings)>> ELSE <<>>)
             \o AssetWarnings(Tail(warnings))

VARIABLES
    githubClient,   \* Publisher.githubClient: Null or the cached client
    created,        \* the clients constructed so far (each owns one limiter)
    limiter,        \* limiter[c] = [running, queue] of client c
    pc,             \* pc[t]: position of caller t
    client,         \* client[t]: the client caller t obtained for its run
    waitOrder,      \* history: callers blocked in acquire, in arrival order, per client
    lastExit,       \* history: how the request finished last left request(), and
                    \* how many callers were queued when it released its slot
    reqIn,          \* one request() call: method, path, body and what the network does
    reqOut,         \* its outcome, NoData until it has run
    input,          \* one call of a function of asset-processor: its argument
    output,         \* what it returned, NoData until it has run
    store,          \* the remote tree: path -> bytes or Absent
    wr,             \* wr[w]: the createOrUpdateFile call writer w is in, or NoData
    faults,         \* requests that did not end the way a lossless network ends them
    prevCall,       \* history: the createOrUpdateFile call completed before lastCall
    lastCall,       \* history: the createOrUpdateFile call completed last
    settings,       \* Publisher.settings
    vault,          \* the markdown files of the vault, as getMarkdownFiles lists them
    clock,          \* what new Date() reads
    run,            \* the publishAll call in progress or just returned, or NoData
    runsLeft,       \* publishAll calls still to be made
    hist            \* history of the current run: paths PUT and DELETE requests
                    \* went to, files removed, failures, the vault and what the
                    \* persisted manifest tracked when the run began

gateVars == <<githubClient, created, limiter, pc, client, waitOrder, lastExit>>
reqVars == <<reqIn, reqOut, input, output>>
writeVars == <<store, wr, faults>>
callVars == <<prevCall, lastCall>>
pubVars == <<settings, vault, clock, run, runsLeft, hist>>
nonGateVars == <<reqVars, writeVars, callVars, pubVars>>
vars == <<gateVars, nonGateVars>>

GateIdle ==
    /\ githubClient = Null
    /\ created = {}
    /\ limiter = [c \in Clients |-> [running |-> 0, queue |-> <<>>]]
    /\ pc = [t \in Tasks |-> "idle"]
    /\ client = [t \in Tasks |-> Null]
    /\ waitOrder = [c \in Clients |-> <<>>]
    /\ lastExit = [status |-> "none", waiting |-> 0]

ReqIdle == reqIn = NoData /\ reqOut = NoData /\ input = NoData /\ output = NoData

Writers == {1, 2}

WriteIdle ==
    /\ store = [p \in {} |-> Absent]
    /\ wr = [w \in Writers |-> NoData]
    /\ faults = 0

CallIdle == prevCall = NoData /\ lastCall = NoData

PubIdle ==
    /\ settings = NoData
    /\ vault = <<>>
    /\ clock = 0
    /\ run = NoData
    /\ runsLeft = 0
    /\ hist = NoData

(***************************************************************************)
(* ConcurrencyLimiter                                                      *)
(***************************************************************************)
\* acquire(): take a slot if one is free, else queue a callback for caller t
acquire(lim, t) ==
    IF lim.running < maxConcurrent
    THEN [running |-> lim.running + 1, queue |-> lim.queue]
    ELSE [running |-> lim.running, queue |-> Append(lim.queue, t)]

\* a release that runs the callback queued last (queue.pop() for queue.shift())
releaseLast(lim) ==
    IF lim.queue = <<>>
    THEN [running |-> lim.running - 1, queue |-> <<>>, next |-> Null]
    ELSE [running |-> (lim.running - 1) + 1,
          queue |-> SubSeq(lim.queue, 1, Len(lim.queue) - 1),
          next |-> lim.queue[Len(lim.queue)]]

\* a release whose queued callback does not count itself (no running++ in it)
releaseUncounted(lim) ==
    IF lim.queue = <<>>
    THEN [running |-> lim.running - 1, queue |-> <<>>, next |-> Null]
    ELSE [running |-> lim.running - 1, queue |-> Tail(lim.queue),
          next |-> Head(lim.queue)]

\* a release that shifts the queue and never calls the callback it took
releaseWithoutNext(lim) ==
    IF lim.queue = <<>>
    THEN [running |-> lim.running - 1, queue |-> <<>>, next |-> Null]
    ELSE [running |-> lim.running - 1, queue |-> Tail(lim.queue), next |-> Null]

\* release(): running--, then const next = this.queue.shift(); if (next) next(),
\* and next() does running++ and resolves the caller it belongs to
release(lim) ==
    IF lim.queue = <<>>
    THEN [running |-> lim.running - 1, queue |-> <<>>, next |-> Null]
    ELSE [running |-> (lim.running - 1) + 1, queue |-> Tail(lim.queue),
          next |-> Head(lim.queue)]

(***************************************************************************)
(* Publisher.updateSettings / getGitHubClient                              *)
(***************************************************************************)
\* updateSettings: the cached client is dropped
UpdateSettings ==
    /\ githubClient # Null
    /\ githubClient' = Null
    /\ UNCHANGED <<created, limiter, pc, client, waitOrder, lastExit, nonGateVars>>

\* publishAll starts: getGitHubClient returns the cached client or constructs one
StartRun(t) ==
    /\ pc[t] = "idle"
    /\ client[t] = Null
    /\ IF githubClient # Null
       THEN /\ client' = [client EXCEPT ![t] = githubClient]
            /\ UNCHANGED <<githubClient, created, limiter>>
       ELSE \E c \in Clients \ created :
            /\ c = Cardinality(created) + 1
            /\ githubClient' = c
            /\ created' = created \cup {c}
            /\ limiter' = [limiter EXCEPT ![c] = [running |-> 0, queue |-> <<>>]]
            /\ client' = [client EXCEPT ![t] = c]
    /\ UNCHANGED <<pc, waitOrder, lastExit, nonGateVars>>

\* publishAll returns
EndRun(t) ==
    /\ pc[t] = "idle"
    /\ client[t] # Null
    /\ client' = [client EXCEPT ![t] = Null]
    /\ UNCHANGED <<githubClient, created, limiter, pc, waitOrder, lastExit, nonGateVars>>

(***************************************************************************)
(* GitHubClient.request: acquire, the attempts, release in finally         *)
(***************************************************************************)
ExitStatuses == {"2xx", "404", "raise"}

\* request() is called: await this.limiter.acquire()
Acquire(t) ==
    /\ pc[t] = "idle"
    /\ client[t] # Null
    /\ LET c == client[t]
           lim == acquire(limiter[c], t)
       IN /\ limiter' = [limiter EXCEPT ![c] = lim]
          /\ IF lim.queue # limiter[c].queue
             THEN /\ pc' = [pc EXCEPT ![t] = "waiting"]
                  /\ waitOrder' = [waitOrder EXCEPT ![c] = Append(@, t)]
             ELSE /\ pc' = [pc EXCEPT ![t] = "inflight"]
                  /\ UNCHANGED waitOrder
    /\ UNCHANGED <<githubClient, created, client, lastExit, nonGateVars>>

\* the attempts of caller t end (result, not found, or error after the retries);
\* finally: this.limiter.release(), which admits a queued caller
Finish(t) ==
    /\ pc[t] = "inflight"
    /\ LET c == client[t]
           rel == release(limiter[c])
       IN /\ limiter' = [limiter EXCEPT ![c] = [running |-> rel.running, queue |-> rel.queue]]
          /\ pc' = [u \in Tasks |->
                      IF u = t THEN "idle"
                      ELSE IF u = rel.next THEN "inflight" ELSE pc[u]]
          /\ waitOrder' = [waitOrder EXCEPT ![c] =
                             Without(@, rel.next)]
          /\ \E s \in ExitStatuses :
                lastExit' = [status |-> s,
                             waiting |-> Len(waitOrder[c])]
    /\ UNCHANGED <<githubClient, created, client, nonGateVars>>

(***************************************************************************)
(* SpecGate: the callers of one client contend for its limiter.            *)
(* SpecClients: the same, with settings changes that recreate the client.  *)
(***************************************************************************)
InitGate == GateIdle /\ ReqIdle /\ WriteIdle /\ CallIdle /\ PubIdle

NextGate ==
    \/ \E t \in Tasks : StartRun(t)
    \/ \E t \in Tasks : EndRun(t)
    \/ \E t \in Tasks : Acquire(t)
    \/ \E t \in Tasks : Finish(t)

SpecGate == InitGate /\ [][NextGate]_vars

\* the callers of one client that is in use by all of them, with every admitted
\* request coming to its end: the loop of request() makes at most `retries`
\* attempts, sleeps a bounded time between them and releases in finally
InitQueue ==
    /\ ReqIdle /\ WriteIdle /\ CallIdle /\ PubIdle
    /\ githubClient = 1
    /\ created = {1}
    /\ limiter = [c \in Clients |-> [running |-> 0, queue |-> <<>>]]
    /\ pc = [t \in Tasks |-> "idle"]
    /\ client = [t \in Tasks |-> 1]
    /\ waitOrder = [c \in Clients |-> <<>>]
    /\ lastExit = [status |-> "none", waiting |-> 0]

NextQueue ==
    \/ \E t \in Tasks : Acquire(t)
    \/ \E t \in Tasks : Finish(t)

SpecGateFair == InitQueue /\ [][NextQueue]_vars /\ \A t \in Tasks : WF_vars(Finish(t))

NextClients == NextGate \/ UpdateSettings

SpecClients == InitGate /\ [][NextClients]_vars

(***************************************************************************)
(* SpecRequest: request() as a function of what the network does to its    *)
(* attempts, for every method against a one-file tree                      *)
(***************************************************************************)
ReqPath == <<"f">>
ReqDir == <<"d">>
ReqChild == <<"d", "/", "e", "/", "g">>
ReqBytes == <<"x">>
ReqStores == [{ReqPath, ReqChild} -> {Absent, ReqBytes}]
ReqPaths(method) == IF method = "GET" THEN {ReqPath, ReqDir} ELSE {ReqPath}
ReqBodies(method, s) ==
    CASE method = "GET" -> {NoData}
      [] method = "PUT" ->
           {[content |-> arrayBufferToBase64(<<"y">>),
             sha |-> IF s[ReqPath] = Absent THEN NoSha ELSE BlobHash(s[ReqPath])]}
      [] method = "DELETE" -> {[sha |-> BlobHash(ReqBytes)]}

InitRequest ==
    /\ GateIdle /\ WriteIdle /\ CallIdle /\ PubIdle
    /\ reqOut = NoData
    /\ input = NoData /\ output = NoData
    /\ \E method \in {"GET", "PUT", "DELETE"}, s \in ReqStores, evs \in EventSeqs :
         \E body \in ReqBodies(method, s), path \in ReqPaths(method) :
            reqIn = [method |-> method, path |-> path, body |-> body, evs |-> evs,
                     store |-> s]

RunRequest ==
    /\ reqOut = NoData
    /\ reqOut' = request(reqIn.method, reqIn.path, reqIn.body, reqIn.evs, reqIn.store)
    /\ UNCHANGED <<reqIn, input, output, gateVars, writeVars, callVars, pubVars>>

SpecRequest == InitRequest /\ [][RunRequest]_vars

(***************************************************************************)
(* SpecAssets: the functions of asset-processor and the eligibility        *)
(* filter, each called once on an argument drawn from a bounded set        *)
(***************************************************************************)
\* pieces a document body is made of
MaxRefs == 2
\* characters of a file name or a slug
MaxName == 3

\* a piece of a body: its text, the syntax it is written in, the link target
\* it names and what that target is in the vault
Wiki(target, rest, class, file) ==
    [text |-> <<"![[">> \o target \o rest \o <<"]]">>, syntax |-> "wiki",
     target |-> target, class |-> class, file |-> file]
Md(alt, target, class, file) ==
    [text |-> <<"![">> \o alt \o <<"](">> \o target \o <<")">>, syntax |-> "md",
     target |-> target, class |-> class, file |-> file]
Plain == [text |-> <<"T">>, syntax |-> "none", target |-> <<>>, class |-> "text",
          file |-> NoData]
Url == <<"h", "/", "a", ".png">>

Pieces ==
    {Plain,
     Wiki(<<"test", ".png">>, <<>>, "image", TestFile),
     Wiki(<<"test", ".png">>, <<"|", "cap">>, "image", TestFile),
     Md(<<"alt">>, <<"images", "/", "test", ".png">>, "image", TestFile),
     Md(<<"alt">>, <<"old", "/", "test", ".png">>, "image", TestFile),
     Wiki(<<"my", " ", "image", ".PNG">>, <<>>, "image", SpacedFile),
     Md(<<>>, <<"my", "%20", "image", ".PNG">>, "image", SpacedFile),
     Wiki(<<"my", "-", "image", ".PNG">>, <<>>, "image", DashedFile),
     Wiki(<<"missing", ".png">>, <<>>, "missing", NoData),
     Md(<<"alt">>, <<"x", "/", "missing", ".png">>, "missing", NoData),
     Wiki(<<"images">>, <<>>, "folder", ImagesFolder),
     Md(<<"alt">>, <<"images">>, "folder", ImagesFolder),
     Wiki(<<"doc", ".pdf">>, <<>>, "other", PdfFile),
     Md(<<"see">>, <<"doc", ".pdf">>, "other", PdfFile),
     Md(<<"ext">>, <<"https://">> \o Url, "url", NoData),
     Md(<<"ext">>, <<"http://">> \o Url, "url", NoData),
     Wiki(<<"https://">> \o Url, <<>>, "url", NoData),
     Md(<<"in">>, <<"data:", "AAA">>, "url", NoData),
     Md(<<"x">>, <<"50", "%", ".png">>, "malformed", NoData)}

Bodies == UNION {[1..n -> Pieces] : n \in 1..MaxRefs}

\* the text of a body
TextOf(body) == Flatten([i \in 1..Len(body) |-> body[i].text])

TargetDirs == {<<"c", "/", "my-post">>}

NameChars == {"a", "Z", "0", ".", "_", "-", " ", "\t", "(", "U+00E9", "/"}
Filenames == UNION {[1..n -> NameChars] : n \in 0..MaxName}

SlugChars == {"a", "-", " ", "\t", ":", "/", "?", "U+00E9", "index", "INDEX"}
Basenames == UNION {[1..n -> SlugChars] : n \in 1..MaxName}
Parents == {NoData, <<"my-post">>, <<"my", " ", " ", "post">>, <<"a", ":", "b">>}

\* notes handed to publishAll: every frontmatter, and a note without one
MaxNotes == 2
FlagValues == {"true", "false", "unset", "other"}
Frontmatters ==
    {NoData} \cup [publish : FlagValues, draft : FlagValues, title : BOOLEAN, date : BOOLEAN]
Notes == {[name |-> "note.md", frontmatter |-> fm] : fm \in Frontmatters}
NoteLists == UNION {[1..n -> Notes] : n \in 1..MaxNotes}

InitAssets ==
    /\ GateIdle /\ WriteIdle /\ CallIdle /\ PubIdle
    /\ reqIn = NoData /\ reqOut = NoData
    /\ output = NoData
    /\ \/ \E body \in Bodies, targetDirectory \in TargetDirs :
            input = [kind |-> "body", body |-> body, targetDirectory |-> targetDirectory]
       \/ \E filename \in Filenames : input = [kind |-> "filename", filename |-> filename]
       \/ \E basename \in Basenames, parent \in Parents :
            input = [kind |-> "file", file |-> [basename |-> basename, parent |-> parent]]
       \/ \E files \in NoteLists : input = [kind |-> "files", files |-> files]

\* processMarkdownAssets(app, sourceFile, content, targetDirectory) is called
Extract ==
    /\ output = NoData
    /\ input.kind = "body"
    /\ output' = processMarkdownAssets(TextOf(input.body), input.targetDirectory)
    /\ UNCHANGED <<input, reqIn, reqOut, gateVars, writeVars, callVars, pubVars>>

\* sanitizeFilename(filename) is called, and called again on what it returned
Sanitize ==
    /\ output = NoData
    /\ input.kind = "filename"
    /\ output' = [once |-> sanitizeFilename(input.filename),
                  twice |-> sanitizeFilename(sanitizeFilename(input.filename))]
    /\ UNCHANGED <<input, reqIn, reqOut, gateVars, writeVars, callVars, pubVars>>

\* computeSlug(file) is called
Slug ==
    /\ output = NoData
    /\ input.kind = "file"
    /\ output' = [slug |-> computeSlug(input.file)]
    /\ UNCHANGED <<input, reqIn, reqOut, gateVars, writeVars, callVars, pubVars>>

\* the eligibility filter of publishAll runs over the files
Filter ==
    /\ output = NoData
    /\ input.kind = "files"
    /\ output' = Eligible(input.files, 1, <<>>, createEmptySummary)
    /\ UNCHANGED <<input, reqIn, reqOut, gateVars, writeVars, callVars, pubVars>>

NextAssets == Extract \/ Sanitize \/ Slug \/ Filter

SpecAssets == InitAssets /\ [][NextAssets]_vars

(***************************************************************************)
(* createOrUpdateFile as steps of a writer: the metadata lookup, the PUT   *)
(***************************************************************************)
\* a request may end any way the network allows, within the fault budget
Ends(o, clean) ==
    /\ IF o = clean
       THEN faults' = faults
       ELSE faults < MaxFaults /\ faults' = faults + 1
    /\ store' = o.store

\* await this.getFileSha(path) returns or raises
Lookup(w) ==
    /\ wr[w] # NoData
    /\ wr[w].phase = "lookup"
    /\ \E o \in Outcomes("GET", wr[w].path, NoData, store) :
         /\ Ends(o, Clean("GET", wr[w].path, NoData, store))
         /\ wr' = [wr EXCEPT ![w] = AfterLookup(wr[w], o, store[wr[w].path])]

\* await this.request("PUT", ...) returns or raises
Put(w) ==
    /\ wr[w] # NoData
    /\ wr[w].phase = "put"
    /\ \E o \in Outcomes("PUT", wr[w].path, Payload(wr[w]), store) :
         /\ Ends(o, Clean("PUT", wr[w].path, Payload(wr[w]), store))
         /\ wr' = [wr EXCEPT ![w] = AfterPut(wr[w], o)]

(***************************************************************************)
(* SpecWrite: one caller makes createOrUpdateFile calls one after another  *)
(***************************************************************************)
WritePaths == {<<"f">>, <<"g">>}
WriteContents ==
    {[type |-> "string", data |-> <<"x">>],
     [type |-> "string", data |-> <<"U+00E9">>],
     [type |-> "ArrayBuffer", data |-> <<"0xC3", "0xA9">>]}
WriteTrees == [WritePaths -> {Absent} \cup {BytesOf(c) : c \in WriteContents}]

InitWrite ==
    /\ GateIdle /\ ReqIdle /\ CallIdle /\ PubIdle
    /\ store \in WriteTrees
    /\ wr = [w \in Writers |-> NoData]
    /\ faults = 0

WriteCall ==
    /\ wr[1] = NoData
    /\ \E path \in WritePaths, content \in WriteContents :
         wr' = [wr EXCEPT ![1] = NewWrite(path, content)]
    /\ UNCHANGED <<store, faults, callVars, gateVars, reqVars, pubVars>>

WriteLookup == Lookup(1) /\ UNCHANGED <<callVars, gateVars, reqVars, pubVars>>

WritePut == Put(1) /\ UNCHANGED <<callVars, gateVars, reqVars, pubVars>>

WriteReturn ==
    /\ wr[1] # NoData
    /\ wr[1].phase = "done"
    /\ prevCall' = lastCall
    /\ lastCall' = wr[1]
    /\ wr' = [wr EXCEPT ![1] = NoData]
    /\ UNCHANGED <<store, faults, gateVars, reqVars, pubVars>>

NextWrite == WriteCall \/ WriteLookup \/ WritePut \/ WriteReturn

SpecWrite == InitWrite /\ [][NextWrite]_vars

(***************************************************************************)
(* SpecOverlap: two createOrUpdateFile calls for one path with the same    *)
(* bytes, made by two publish runs that share the client, over a network   *)
(* that loses nothing                                                      *)
(***************************************************************************)
InitOverlap ==
    /\ GateIdle /\ ReqIdle /\ CallIdle /\ PubIdle
    /\ store \in WriteTrees
    /\ faults = MaxFaults
    /\ \E path \in WritePaths, c1 \in WriteContents, c2 \in WriteContents :
          /\ BytesOf(c1) = BytesOf(c2)
          /\ wr = [w \in Writers |-> NewWrite(path, IF w = 1 THEN c1 ELSE c2)]

OverlapLookup(w) == Lookup(w) /\ UNCHANGED <<callVars, gateVars, reqVars, pubVars>>

OverlapPut(w) == Put(w) /\ UNCHANGED <<callVars, gateVars, reqVars, pubVars>>

NextOverlap ==
    \/ \E w \in Writers : OverlapLookup(w)
    \/ \E w \in Writers : OverlapPut(w)

SpecOverlap == InitOverlap /\ [][NextOverlap]_vars

(***************************************************************************)
(* Publisher.publishAll, one step per await                                *)
(*                                                                         *)
(* The destinations are GitHub, a local folder, both or none; the disk of  *)
(* the local folder is not part of the state. The vault and the settings   *)
(* change between runs only.                                               *)
(***************************************************************************)
MaxRuns == 2

DocA ==
    [name |-> "a.md", path |-> <<"posts", "/", "a", ".md">>,
     basename |-> <<"a">>, parent |-> <<"posts">>,
     frontmatter |-> [publish |-> "true", draft |-> "unset", title |-> TRUE, date |-> TRUE],
     text |-> <<"publish: true", "title: A", "![", "](", "img.png", ")",
                "![[", "test", ".png", "]]">>]
\* a second document named a, in another folder
DocA2 ==
    [name |-> "a.md", path |-> <<"caf", "U+00E9", "/", "a", ".md">>,
     basename |-> <<"a">>, parent |-> <<"caf", "U+00E9">>,
     frontmatter |-> [publish |-> "unset", draft |-> "false", title |-> TRUE, date |-> TRUE],
     text |-> <<"draft: false", "title: A2", "![[", "gone.png", "]]">>]
DocB ==
    [name |-> "index.md", path |-> <<"b", "/", "index", ".md">>,
     basename |-> <<"index">>, parent |-> <<"b">>,
     frontmatter |-> [publish |-> "true", draft |-> "false", title |-> TRUE, date |-> TRUE],
     text |-> <<"title: B", "publish: true">>]
DocDraft ==
    [name |-> "d.md", path |-> <<"posts", "/", "d", ".md">>,
     basename |-> <<"d">>, parent |-> <<"posts">>,
     frontmatter |-> [publish |-> "true", draft |-> "true", title |-> TRUE, date |-> TRUE],
     text |-> <<"publish: true", "draft: true">>]
DocBad ==
    [name |-> "e.md", path |-> <<"posts", "/", "e", ".md">>,
     basename |-> <<"e">>, parent |-> <<"posts">>,
     frontmatter |-> [publish |-> "true", draft |-> "unset", title |-> FALSE, date |-> TRUE],
     text |-> <<"publish: true">>]

Vaults ==
    {<<DocDraft>>, <<DocA, DocBad>>, <<DocB, DocDraft>>, <<DocA, DocB>>, <<DocA, DocA2>>}

Docs == {DocA, DocA2, DocB, DocDraft, DocBad}

\* two content directories, one a string prefix of the other
ContentDirs == {<<"c">>, <<"c", "x">>}
\* localOutputPath: "" when local publishing is off, else a folder; of the
\* folders only those of LocalFolders exist on the disk
LocalFolders == {"out"}
PubSettings ==
    {[contentDirectory |-> dir, enableSync |-> TRUE, configured |-> TRUE,
      localOutputPath |-> ""] : dir \in ContentDirs}
        \cup {[contentDirectory |-> <<"c">>, enableSync |-> FALSE, configured |-> TRUE,
               localOutputPath |-> ""],
              [contentDirectory |-> <<"c">>, enableSync |-> TRUE, configured |-> FALSE,
               localOutputPath |-> ""],
              [contentDirectory |-> <<"c">>, enableSync |-> FALSE, configured |-> TRUE,
               localOutputPath |-> "gone"],
              [contentDirectory |-> <<"c">>, enableSync |-> FALSE, configured |-> FALSE,
               localOutputPath |-> "out"],
              [contentDirectory |-> <<"c">>, enableSync |-> FALSE, configured |-> FALSE,
               localOutputPath |-> "gone"]}

\* publishToLocal(file): false when the destination folder does not exist;
\* the writes to an existing folder succeed
publishToLocal(s, file) == s.localOutputPath \in LocalFolders


\* entries a persisted manifest may hold: two of this vault's slugs, and one
\* whose paths lie in a sibling directory cx and in another directory o
PostA ==
    [slug |-> <<"a">>, vaultPath |-> DocA.path,
     repoPath |-> <<"c", "/", "a", "/", "index.md">>,
     assets |-> <<<<"c", "/", "a", "/", "img.png">>>>, contentSha |-> <<"a">>]
PostB ==
    [slug |-> <<"b">>, vaultPath |-> DocB.path,
     repoPath |-> <<"c", "/", "b", "/", "index.md">>,
     assets |-> <<>>, contentSha |-> <<"b">>]
PostZ ==
    [slug |-> <<"z">>, vaultPath |-> <<"posts", "/", "z", ".md">>,
     repoPath |-> <<"c", "x", "/", "z", "/", "index.md">>,
     assets |-> <<<<"o", "/", "pic.png">>, <<"c", "/", "z", "/", "pic.png">>>>,
     contentSha |-> <<"z">>]

\* an entry of a document that was named constructor.md
PostC ==
    [slug |-> <<"constructor">>, vaultPath |-> <<"posts", "/", "constructor", ".md">>,
     repoPath |-> <<"c", "/", "constructor", "/", "index.md">>,
     assets |-> <<>>, contentSha |-> <<"constructor">>]

OldManifest(version, posts) ==
    [version |-> version, lastPublish |-> toISOString(0), posts |-> posts,
     nullPosts |-> FALSE]

\* the manifest file the run finds: none, a well-formed one, a foreign version,
\* a truncated text, one whose posts is null
PersistedTexts ==
    {NoData, <<"{", "\"version\":">>,
     JSONstringify(OldManifest(2, <<PostB>>)),
     JSONstringify(OldManifest(1, <<PostA>>)),
     JSONstringify(OldManifest(1, <<PostA, PostB>>)),
     JSONstringify(OldManifest(1, <<PostB, PostZ>>)),
     JSONstringify(OldManifest(1, <<PostC, PostA>>)),
     JSONstringify([OldManifest(1, <<>>) EXCEPT !.nullPosts = TRUE])}

RECURSIVE PathsOf(_)
PathsOf(posts) ==
    IF posts = <<>> THEN {}
    ELSE {Head(posts).repoPath} \cup {Head(posts).assets[i] : i \in 1..Len(Head(posts).assets)}
             \cup PathsOf(Tail(posts))

\* where publishToGitHub writes a document and its assets
TargetPaths(file, contentDirectory) ==
    LET targetDir == targetDirOf(contentDirectory, computeSlug(file))
        assets == processedOf(file, targetDir).assets
    IN {indexOf(targetDir)} \cup {assets[i].targetPath : i \in 1..Len(assets)}

PubPaths ==
    {MANIFEST_PATH} \cup PathsOf(<<PostA, PostB, PostZ, PostC>>)
        \cup UNION {TargetPaths(file, dir) : file \in Docs, dir \in ContentDirs}

\* the remote files left by earlier runs: the text of b as it is now, an older
\* text of a, the image of a as it is now
RemoteBytes(path) ==
    IF path = PostB.repoPath THEN TextEncoder(transformFrontmatter(DocB.text))
    ELSE IF path = PostA.assets[1] THEN ImgFile.bytes
    ELSE <<"old">>

\* a recorded asset that is no longer in the repository
GonePath == PostZ.assets[2]

TreeOf(text) ==
    LET Named(parsed) == IF parsed.ok THEN PathsOf(parsed.val.posts) ELSE {}
        Tree(named) ==
            [path \in PubPaths |->
               IF path = MANIFEST_PATH
               THEN IF text = NoData THEN Absent ELSE TextEncoder(text)
               ELSE IF path \in named /\ path # GonePath THEN RemoteBytes(path)
               ELSE Absent]
    IN Tree(Named(IF text = NoData THEN Fail ELSE JSONparse(text)))

\* the manifest a lossless read of tree s yields
Persisted(s) ==
    IF s[MANIFEST_PATH] = Absent THEN createEmptyManifest(0)
    ELSE AcceptManifest(TextDecoder(s[MANIFEST_PATH]), 0)

\* the document paths it tracks
TrackedDocs(s) ==
    LET Paths(posts) == {posts[i].repoPath : i \in 1..Len(posts)}
    IN Paths(Persisted(s).posts)

NoFile == [idx |-> 0]

NewRun(syncManager) ==
    [pc |-> "load", syncManager |-> syncManager, eligibleFiles |-> <<>>,
     file |-> NoFile, summary |-> createEmptySummary,
     operations |-> NoData, delIdx |-> 0, delSha |-> NoSha, deletedCount |-> 0]

Returned(r) == [run |-> [r EXCEPT !.pc = "done", !.file = NoFile], call |-> NoData]

\* a loop that leaves out the last asset
AllButLastAsset(f) == f.assetIdx < Len(f.processed.assets)

\* for (const asset of processed.assets): an asset is left to upload
AssetLeft(f) == f.assetIdx <= Len(f.processed.assets)

\* publishToGitHub goes on to its next upload: an asset, then the text
NextUpload(r) ==
    LET f == r.file IN
    IF AssetLeft(f)
    THEN [run |-> [r EXCEPT !.pc = "asset"],
          call |-> NewWrite(f.processed.assets[f.assetIdx].targetPath,
                            [type |-> "ArrayBuffer",
                             data |-> f.processed.assets[f.assetIdx].vaultFile.bytes])]
    ELSE [run |-> [r EXCEPT !.pc = "markdown"],
          call |-> NewWrite(indexOf(f.targetDir),
                            [type |-> "string",
                             data |-> transformFrontmatter(f.processed.rewrittenMarkdown)])]

\* publishToGitHub(eligibleFiles[i]) up to its first await on the remote
BeginFile(r, i) ==
    LET file == r.eligibleFiles[i]
        targetDir == targetDirOf(settings.contentDirectory, computeSlug(file))
        Continue(processed) ==
            NextUpload([r EXCEPT !.file =
                [idx |-> i, targetDir |-> targetDir, processed |-> processed,
                 assetIdx |-> 1, assetPaths |-> <<>>, warnings |-> processed.warnings,
                 assetsUploaded |-> 0, assetsSkipped |-> 0]])
    IN Continue(processedOf(file, targetDir))

\* the loop body of publishAll for eligibleFiles[i] up to its first await:
\* publishToLocal when a local folder is set, else publishToGitHub
BeginDocument(r, i) ==
    IF settings.localOutputPath # ""
    THEN [run |-> [r EXCEPT !.pc = "local", !.file = [idx |-> i]], call |-> NoData]
    ELSE BeginFile(r, i)

\* saveManifest up to its await
BeginSave(r) ==
    LET m == [r.syncManager.newManifest EXCEPT !.lastPublish = toISOString(clock)] IN
    [run |-> [r EXCEPT !.pc = "save", !.file = NoFile, !.syncManager.newManifest = m],
     call |-> NewWrite(MANIFEST_PATH, [type |-> "string", data |-> JSONstringify(m)])]

\* the sync part of publishAll up to its first await
BeginSync(r) ==
    IF r.syncManager = NoData \/ ~settings.enableSync THEN Returned(r)
    ELSE LET operations == computeDeleteOperations(r.syncManager.currentManifest,
                                                   r.syncManager.newManifest,
                                                   settings.contentDirectory)
         IN IF operations.threw
            THEN Returned([r EXCEPT !.summary.warnings = Append(@, <<"Sync error">>)])
            ELSE IF Len(operations.pathsToDelete) > 0
            THEN [run |-> [r EXCEPT !.pc = "getsha", !.file = NoFile,
                                    !.operations = operations, !.delIdx = 1],
                  call |-> NoData]
            ELSE BeginSave([r EXCEPT !.operations = operations])

NoDestination(files) ==
    [i \in 1..Len(files) |-> <<files[i].name, "No publish destination configured">>]

\* publishAll from the eligibility filter to its next await
AfterLoad(r) ==
    LET filtered == Eligible(vault, 1, <<>>, r.summary)
        r1 == [r EXCEPT !.eligibleFiles = filtered.eligibleFiles,
                        !.summary = filtered.summary]
    IN IF ~settings.configured /\ settings.localOutputPath = ""
       THEN Returned([r1 EXCEPT !.summary.warnings = @ \o NoDestination(r1.eligibleFiles)])
       ELSE IF Len(r1.eligibleFiles) > 0 THEN BeginDocument(r1, 1)
       ELSE BeginSync(r1)

\* the loop of publishAll goes on after a file
AfterFile(r) ==
    IF r.file.idx < Len(r.eligibleFiles) THEN BeginDocument(r, r.file.idx + 1)
    ELSE BeginSync(r)

\* executeDeletes goes on after an item
NextDelete(r) ==
    IF r.delIdx < Len(r.operations.pathsToDelete)
    THEN [run |-> [r EXCEPT !.pc = "getsha", !.delIdx = @ + 1, !.delSha = NoSha],
          call |-> NoData]
    ELSE BeginSave([r EXCEPT !.summary.filesDeleted = r.deletedCount, !.delSha = NoSha])

Between == IF run = NoData THEN TRUE ELSE run.pc = "done"

\* if (client && this.settings.enableSync) with sync taken to be always enabled
SyncAlways(s) == s.configured

\* if (client && this.settings.enableSync)
UsesSync(s) == s.configured /\ s.enableSync

\* history: the createOrUpdateFile call that step n issues, if it issues one
Issue(log, n) ==
    IF n.call = NoData THEN log
    ELSE Append(log, [ev |-> "issued", kind |-> n.run.pc, idx |-> n.run.file.idx,
                      path |-> n.call.path])

\* history: the awaited createOrUpdateFile call of run r returned or raised
Ended(log, r, call) ==
    Append(log, [ev |-> IF call.raised THEN "raised" ELSE "returned",
                 kind |-> r.pc, idx |-> r.file.idx, path |-> call.path])

\* publishAll(files, reporter) is called and runs to its first await
PublishAll ==
    /\ Between
    /\ runsLeft > 0
    /\ runsLeft' = runsLeft - 1
    /\ clock' = clock + 1
    /\ LET RunStart == [runNo |-> hist.runNo + 1, puts |-> {}, deletes |-> {}, removed |-> {},
                failed |-> FALSE, syncFailed |-> FALSE,
                unchanged |-> hist.runNo > 0 /\ hist.files = vault, files |-> vault,
                tracked |-> TrackedDocs(store),
                published |-> <<>>, before |-> hist.published,
                lookups |-> <<>>, deleteCalls |-> <<>>,
                saved |-> NoData, savedBefore |-> hist.saved,
                manifestText |-> IF store[MANIFEST_PATH] = Absent THEN NoData
                                 ELSE TextDecoder(store[MANIFEST_PATH]),
                uploads |-> <<>>, reads |-> {}, store0 |-> store,
                syncCalls |-> <<>>, counted |-> <<>>]
       IN
       IF UsesSync(settings)
       THEN /\ run' = NewRun([currentManifest |-> NoData,
                              newManifest |-> createEmptyManifest(clock + 1)])
            /\ UNCHANGED wr
            /\ hist' = RunStart
       ELSE \E n \in {AfterLoad(NewRun(NoData))} :
            /\ run' = n.run
            /\ wr' = [wr EXCEPT ![1] = n.call]
            /\ hist' = [RunStart EXCEPT !.uploads = Issue(@, n)]
    /\ UNCHANGED <<settings, vault, store, faults, gateVars, reqVars, callVars>>

\* await syncManager.loadManifest() returns
LoadManifest ==
    /\ run # NoData
    /\ run.pc = "load"
    /\ \E o \in Outcomes("GET", MANIFEST_PATH, NoData, store) :
         /\ Ends(o, Clean("GET", MANIFEST_PATH, NoData, store))
         /\ \E currentManifest \in {loadManifest(o, clock)} :
              \E n \in {AfterLoad([run EXCEPT !.syncManager.currentManifest =
                                                  currentManifest])} :
                 /\ run' = n.run
                 /\ wr' = [wr EXCEPT ![1] = n.call]
                 /\ hist' = [hist EXCEPT !.failed = @ \/ o.status = "raise",
                                         !.syncFailed = @ \/ o.status = "raise",
                                         !.reads = @ \cup {MANIFEST_PATH},
                                         !.uploads = Issue(@, n)]
    /\ UNCHANGED <<settings, vault, clock, runsLeft, gateVars, reqVars, callVars>>

\* await this.publishToLocal(file) returns; without a client the document
\* is counted as published ("Local only, still count as published")
LocalReturn ==
    /\ run # NoData
    /\ run.pc = "local"
    /\ LET i == run.file.idx
           file == run.eligibleFiles[i]
           localSuccess == publishToLocal(settings, file)
           r1 == IF localSuccess THEN run
                 ELSE [run EXCEPT
                         !.summary.errors = Append(@, <<"Local publish failed", file.name>>)]
           failed == IF localSuccess THEN <<>> ELSE <<[idx |-> i, as |-> "error"]>>
       IN IF settings.configured
          THEN \E n \in {BeginFile(r1, i)} :
                 /\ run' = n.run
                 /\ wr' = [wr EXCEPT ![1] = n.call]
                 /\ hist' = [hist EXCEPT !.uploads = Issue(@, n),
                                         !.counted = @ \o failed]
          ELSE \E n \in {AfterFile([r1 EXCEPT !.summary.postsPublished = @ + 1])} :
                 /\ run' = n.run
                 /\ wr' = [wr EXCEPT ![1] = n.call]
                 /\ hist' = [hist EXCEPT
                               !.uploads = Issue(@, n),
                               !.counted = @ \o failed
                                             \o <<[idx |-> i, as |-> "published"]>>]
    /\ UNCHANGED <<settings, vault, clock, runsLeft, store, faults,
                   gateVars, reqVars, callVars>>

Uploading == run # NoData /\ run.pc \in {"asset", "markdown", "save"}

\* the metadata read of the upload in progress
UploadLookup ==
    /\ Uploading
    /\ Lookup(1)
    /\ hist' = [hist EXCEPT !.failed = @ \/ wr'[1].raised,
                            !.reads = @ \cup {wr[1].path}]
    /\ UNCHANGED <<settings, vault, clock, run, runsLeft, gateVars, reqVars, callVars>>

\* the PUT of the upload in progress
UploadPut ==
    /\ Uploading
    /\ Put(1)
    /\ hist' = [hist EXCEPT !.failed = @ \/ wr'[1].raised,
                            !.puts = @ \cup {wr[1].path}]
    /\ UNCHANGED <<settings, vault, clock, run, runsLeft, gateVars, reqVars, callVars>>

\* await this.uploadAssetToGitHub(asset, client) returns or raises
AssetReturn ==
    /\ run # NoData
    /\ run.pc = "asset"
    /\ wr[1].phase = "done"
    /\ LET asset == run.file.processed.assets[run.file.assetIdx]
           r1 == IF wr[1].raised
                 THEN [run EXCEPT !.file.warnings =
                                      Append(@, <<"Asset upload failed (">>
                                                    \o asset.targetFilename \o <<")">>),
                                  !.file.assetIdx = @ + 1]
                 ELSE [run EXCEPT !.file.assetPaths = Append(@, asset.targetPath),
                                  !.file.assetsUploaded = @ + (IF wr[1].uploaded THEN 1 ELSE 0),
                                  !.file.assetsSkipped = @ + (IF wr[1].uploaded THEN 0 ELSE 1),
                                  !.file.assetIdx = @ + 1]
           n == NextUpload(r1)
       IN /\ run' = n.run
          /\ wr' = [wr EXCEPT ![1] = n.call]
          /\ hist' = [hist EXCEPT !.uploads = Issue(Ended(@, run, wr[1]), n)]
    /\ UNCHANGED <<settings, vault, clock, runsLeft, store, faults,
                   gateVars, reqVars, callVars>>

\* the upload of the text returns or raises, publishToGitHub returns its result
\* and publishAll accounts for it
MarkdownReturn ==
    /\ run # NoData
    /\ run.pc = "markdown"
    /\ wr[1].phase = "done"
    /\ LET f == run.file
           file == run.eligibleFiles[f.idx]
           slug == computeSlug(file)
           targetDir == targetDirOf(settings.contentDirectory, slug)
           warned == [i \in 1..Len(f.warnings) |-> <<file.name>> \o f.warnings[i]]
           r1 == IF ~wr[1].raised
                 THEN [run EXCEPT
                         !.summary.postsPublished = @ + 1,
                         !.summary.assetsUploaded = @ + f.assetsUploaded,
                         !.summary.assetsSkipped = @ + f.assetsSkipped,
                         !.summary.warnings = @ \o warned,
                         !.syncManager =
                             IF @ = NoData THEN @
                             ELSE [@ EXCEPT !.newManifest =
                                     registerPublishedPost(@, slug, file.path,
                                         indexOf(targetDir), AssetWarnings(f.warnings),
                                         slug)]]
                 ELSE [run EXCEPT
                         !.summary.errors = Append(@, <<"GitHub publish failed", file.name>>),
                         !.summary.warnings = @ \o warned]
       IN \E n \in {AfterFile(r1)} :
          /\ run' = n.run
          /\ wr' = [wr EXCEPT ![1] = n.call]
          /\ hist' = [hist EXCEPT
                        !.uploads = Issue(Ended(@, run, wr[1]), n),
                        !.counted = Append(@, [idx |-> f.idx,
                                               as |-> IF wr[1].raised THEN "error"
                                                      ELSE "published"]),
                        !.published =
                            IF wr[1].raised THEN @
                            ELSE Append(@, [slug |-> slug, repoPath |-> indexOf(targetDir),
                                            assetPaths |-> f.assetPaths,
                                            sha |-> wr[1].sha])]
    /\ UNCHANGED <<settings, vault, clock, runsLeft, store, faults,
                   gateVars, reqVars, callVars>>

\* deleteFile handed the digest that computeDeleteOperations stored in the item
itemSha(r) == <<"">>

\* const sha = await this.client.getFileSha(item.path); deleteFile(item.path, sha, ...)
shaArgument(r) == r.delSha

\* executeDeletes: await this.client.getFileSha(item.path) returns or raises
DeleteLookup ==
    /\ run # NoData
    /\ run.pc = "getsha"
    /\ LET path == run.operations.pathsToDelete[run.delIdx] IN
       \E o \in Outcomes("GET", path, NoData, store) :
         /\ Ends(o, Clean("GET", path, NoData, store))
         /\ hist' = [hist EXCEPT !.failed = @ \/ o.status = "raise",
                                 !.syncFailed = @ \/ o.status = "raise",
                                 !.lookups = Append(@, [path |-> path,
                                                        raised |-> o.status = "raise",
                                                        present |-> store[path] # Absent]),
                                 !.reads = @ \cup {path},
                                 !.syncCalls =
                                     Append(@, [op |-> "getFileSha", path |-> path,
                                                raised |-> o.status = "raise",
                                                sha |-> IF o.status = "raise" THEN NoSha
                                                        ELSE getFileSha(o)]),
                                 !.uploads =
                                     IF o.status # "raise" /\ getFileSha(o) # NoSha
                                     THEN @ ELSE Issue(@, NextDelete(run))]
         /\ IF o.status # "raise" /\ getFileSha(o) # NoSha
            THEN /\ run' = [run EXCEPT !.pc = "delete", !.delSha = getFileSha(o)]
                 /\ UNCHANGED wr
            ELSE LET n == NextDelete(run) IN
                 /\ run' = n.run
                 /\ wr' = [wr EXCEPT ![1] = n.call]
    /\ UNCHANGED <<settings, vault, clock, runsLeft, gateVars, reqVars, callVars>>

\* executeDeletes: await this.client.deleteFile(item.path, sha, ...) returns or raises
DeleteFile ==
    /\ run # NoData
    /\ run.pc = "delete"
    /\ LET path == run.operations.pathsToDelete[run.delIdx]
           body == [sha |-> shaArgument(run)]
       IN \E o \in Outcomes("DELETE", path, body, store) :
            /\ Ends(o, Clean("DELETE", path, body, store))
            /\ LET n == NextDelete(IF o.status = "raise" THEN run
                                   ELSE [run EXCEPT !.deletedCount = @ + 1])
               IN /\ run' = n.run
                  /\ wr' = [wr EXCEPT ![1] = n.call]
                  /\ hist' = [hist EXCEPT
                                !.failed = @ \/ o.status = "raise",
                                !.syncFailed = @ \/ o.status = "raise",
                                !.deletes = @ \cup {path},
                                !.deleteCalls = Append(@, [path |-> path,
                                                           raised |-> o.status = "raise"]),
                                !.syncCalls =
                                    Append(@, [op |-> "deleteFile", path |-> path,
                                               raised |-> o.status = "raise",
                                               sha |-> body.sha,
                                               remote |-> IF store[path] = Absent THEN NoSha
                                                          ELSE BlobHash(store[path])]),
                                !.removed = @ \cup (IF store[path] # Absent
                                                        /\ o.store[path] = Absent
                                                     THEN {path} ELSE {}),
                                !.uploads = Issue(@, n)]
    /\ UNCHANGED <<settings, vault, clock, runsLeft, gateVars, reqVars, callVars>>

\* await syncManager.saveManifest() returns or raises, and publishAll returns
SaveReturn ==
    /\ run # NoData
    /\ run.pc = "save"
    /\ wr[1].phase = "done"
    /\ run' = [run EXCEPT !.pc = "done",
                          !.summary.warnings =
                              IF wr[1].raised THEN Append(@, <<"Sync error">>) ELSE @]
    /\ wr' = [wr EXCEPT ![1] = NoData]
    /\ hist' = [hist EXCEPT
                  !.uploads = Ended(@, run, wr[1]),
                  !.saved = IF wr[1].raised THEN @ ELSE run.syncManager.newManifest]
    /\ UNCHANGED <<settings, vault, clock, runsLeft, store, faults,
                   gateVars, reqVars, callVars>>

\* between two runs the user adds, removes or renames documents
EditVault ==
    /\ Between
    /\ runsLeft > 0
    /\ vault' \in Vaults \ {vault}
    /\ UNCHANGED <<settings, clock, run, runsLeft, hist, gateVars, reqVars,
                   writeVars, callVars>>

InitPublishWith(used, runs) ==
    /\ GateIdle /\ ReqIdle /\ CallIdle
    /\ settings \in PubSettings
    /\ vault \in Vaults
    /\ clock = 0
    /\ run = NoData
    /\ runsLeft = runs
    /\ \E text \in PersistedTexts : store = TreeOf(text)
    /\ wr = [w \in Writers |-> NoData]
    /\ faults = used
    /\ hist = [runNo |-> 0, puts |-> {}, deletes |-> {}, removed |-> {}, failed |-> FALSE,
               syncFailed |-> FALSE, unchanged |-> FALSE, files |-> vault,
               tracked |-> {}, published |-> <<>>, before |-> <<>>,
               lookups |-> <<>>, deleteCalls |-> <<>>,
               saved |-> NoData, savedBefore |-> NoData,
               manifestText |-> NoData, uploads |-> <<>>, reads |-> {},
               store0 |-> store, syncCalls |-> <<>>, counted |-> <<>>]

NextPublish ==
    \/ PublishAll
    \/ LoadManifest
    \/ UploadLookup
    \/ UploadPut
    \/ AssetReturn
    \/ MarkdownReturn
    \/ LocalReturn
    \/ DeleteLookup
    \/ DeleteFile
    \/ SaveReturn
    \/ EditVault

\* one publishAll run over a network that may fail MaxFaults requests
InitPublish == InitPublishWith(0, 1)
SpecPublish == InitPublish /\ [][NextPublish]_vars

\* MaxRuns publishAll runs one after another over a network that loses nothing
InitRepublish == InitPublishWith(MaxFaults, MaxRuns)
SpecRepublish == InitRepublish /\ [][NextPublish]_vars

(***************************************************************************)
(* Publishing twice, deleting, and the manifest                            *)
(***************************************************************************)
EligibleSlugs(files) ==
    {computeSlug(files[i]) : i \in {j \in 1..Len(files) :
         LET v == validate(files[j].frontmatter) IN ~v.ignore /\ v.isValid}}

\* a path below directory dir
Inside(path, dir) == startsWith(path, dir \o <<"/">>)

Loaded == IF run = NoData THEN FALSE
          ELSE IF run.syncManager = NoData THEN FALSE
          ELSE run.syncManager.currentManifest # NoData

\* C2: when publishAll runs again with the vault unchanged since the run
\* before (over a network that loses nothing), the second run sends no PUT
\* for a document text or an asset.
C2_SecondRunUploadsNothing ==
    (hist.runNo >= 2 /\ hist.unchanged) => hist.puts \subseteq {MANIFEST_PATH}

\* C3: a remote document path is removed by a run only if no eligible document
\* of the vault has the slug its manifest entry records.
C3_DeletesOnlyRemovedDocuments ==
    Loaded =>
        LET posts == run.syncManager.currentManifest.posts IN
        \A i \in 1..Len(posts) :
            posts[i].repoPath \in hist.removed
                => posts[i].slug \notin EligibleSlugs(hist.files)

\* C4: every path computeDeleteOperations returns starts with the content
\* directory; a recorded path of a removed slug that does not is left out.
C4_DeletionsStartWithContentDirectory ==
    (Loaded /\ run.operations # NoData) =>
        LET paths == run.operations.pathsToDelete
            removed == Removed(run.syncManager.currentManifest.posts,
                               run.syncManager.newManifest.posts)
        IN /\ \A i \in 1..Len(paths) : startsWith(paths[i], settings.contentDirectory)
           /\ \A path \in PathsOf(removed) :
                ~startsWith(path, settings.contentDirectory)
                    => \A i \in 1..Len(paths) : paths[i] # path

\* a removed slug had a recorded path outside the prefix and one within it
C4_Witness ==
    /\ Loaded
    /\ run.operations # NoData
    /\ run.operations.pathsToDelete # <<>>
    /\ \E path \in PathsOf(Removed(run.syncManager.currentManifest.posts,
                                   run.syncManager.newManifest.posts)) :
         ~startsWith(path, settings.contentDirectory)

\* C5: every DELETE request a run sends goes to a path below the content
\* directory, and no file elsewhere is removed.
C5_DeletesStayBelowContentDirectory ==
    \A path \in hist.deletes \cup hist.removed : Inside(path, settings.contentDirectory)

\* C6: when a run with sync has returned and its manifest read, a digest
\* lookup or a delete of its deletions failed, every document path below the
\* content directory that the persisted manifest tracked when the run began
\* is still tracked by the persisted manifest or absent from the remote store.
C6_TrackedStaysTrackedOrGone ==
    (Loaded /\ run.pc = "done" /\ hist.syncFailed) =>
        \A path \in hist.tracked :
            Inside(path, settings.contentDirectory)
                => path \in TrackedDocs(store) \/ store[path] = Absent

(***************************************************************************)
(* Idempotent writes                                                       *)
(***************************************************************************)
\* the call got an answer to its metadata read
LookedUp(call) == ~(call.raised /\ call.puts = 0)

\* C1: a createOrUpdateFile call makes one metadata read and, once that read is
\* answered, issues a PUT if and only if the path was absent or held other bytes
\* than the content's; so of two calls in a row that return, for the same path
\* and identical bytes, the second issues no PUT, makes one metadata read,
\* reports uploaded = false and returns the digest the first returned, and the
\* two together transfer data once (not at all when the path already held
\* these bytes).
C1_IdempotentWrite ==
    /\ lastCall # NoData =>
          /\ lastCall.gets = 1
          /\ lastCall.puts <= 1
          /\ LookedUp(lastCall) =>
                (lastCall.puts = 1 <=>
                    (lastCall.remoteBefore = Absent
                       \/ lastCall.remoteBefore # BytesOf(lastCall.content)))
          /\ ~lastCall.raised => (lastCall.uploaded <=> lastCall.puts = 1)
    /\ (/\ prevCall # NoData /\ lastCall # NoData
        /\ ~prevCall.raised /\ ~lastCall.raised
        /\ prevCall.path = lastCall.path
        /\ BytesOf(prevCall.content) = BytesOf(lastCall.content))
          => /\ lastCall.puts = 0
             /\ lastCall.gets = 1
             /\ lastCall.uploaded = FALSE
             /\ lastCall.sha = prevCall.sha
             /\ prevCall.puts + lastCall.puts <= 1
             /\ prevCall.puts = 1 <=>
                   prevCall.remoteBefore # BytesOf(prevCall.content)

\* the same bytes were written twice in a row to one path, once as text and once
\* as binary: the first call transferred them, the second did not
C1_Witness ==
    /\ prevCall # NoData /\ lastCall # NoData
    /\ prevCall.path = lastCall.path
    /\ prevCall.content.type = "string" /\ lastCall.content.type = "ArrayBuffer"
    /\ BytesOf(prevCall.content) = BytesOf(lastCall.content)
    /\ prevCall.uploaded /\ prevCall.puts = 1
    /\ ~lastCall.raised /\ ~lastCall.uploaded /\ lastCall.puts = 0

(***************************************************************************)
(* The concurrency gate                                                    *)
(***************************************************************************)
InFlight(c) == {t \in Tasks : client[t] = c /\ pc[t] = "inflight"}
Waiting(c) == {t \in Tasks : client[t] = c /\ pc[t] = "waiting"}
Range(q) == {q[i] : i \in 1..Len(q)}

\* C7: at every moment at most 5 requests are in flight, counted over every
\* client the publisher has created (a settings change recreates the client
\* while runs that hold the earlier one are still in progress).
C7_AtMostFiveInFlightSystemWide ==
    Cardinality({t \in Tasks : pc[t] = "inflight"}) <= maxConcurrent

\* C8: callers beyond the limit are admitted in arrival order: a caller that
\* was blocked in acquire is admitted only when it has waited longest, a caller
\* that arrives gets a slot at once only when nobody is waiting, and a release
\* made while callers wait admits exactly one of them.
C8_FifoAdmission ==
    [][\A t \in Tasks :
          LET c == client[t] IN
          /\ (pc[t] = "waiting" /\ pc'[t] = "inflight")
                => t = Head(waitOrder[c])
          /\ (pc[t] = "idle" /\ pc'[t] = "inflight")
                => waitOrder[c] = <<>>
          /\ (pc[t] = "inflight" /\ pc'[t] = "idle" /\ waitOrder[c] # <<>>)
                => /\ pc'[Head(waitOrder[c])] = "inflight"
                   /\ \A u \in Range(Tail(waitOrder[c])) : pc'[u] = "waiting"
      ]_vars

\* a release has just admitted the longest waiter while another caller, which
\* arrived later, stays queued behind it
C8_Witness ==
    \E c \in Clients :
        /\ lastExit.waiting >= 2
        /\ Len(waitOrder[c]) = lastExit.waiting - 1
        /\ Cardinality(InFlight(c)) = maxConcurrent

\* C9: every request holds exactly one slot from its admission to its exit and
\* gives it back once, whatever the exit: the running count of a limiter is the
\* number of its requests in flight (so never negative), its queue holds exactly
\* the callers blocked in acquire, and with no request active the count is 0 and
\* the queue is empty.
C9_SlotsPairUp ==
    \A c \in Clients :
        /\ limiter[c].running = Cardinality(InFlight(c))
        /\ limiter[c].running >= 0
        /\ Range(limiter[c].queue) = Waiting(c)
        /\ Len(limiter[c].queue) = Cardinality(Waiting(c))
        /\ (InFlight(c) = {} /\ Waiting(c) = {})
              => (limiter[c].running = 0 /\ limiter[c].queue = <<>>)

\* a request has left through the error path (retries exhausted) and no request
\* is active any more
C9_Witness ==
    /\ lastExit.status = "raise"
    /\ \A t \in Tasks : pc[t] = "idle"
    /\ \E c \in created : limiter[c].running = 0

(***************************************************************************)
(* The retry loop                                                          *)
(***************************************************************************)
Failing(status) == status \in {"rate", "other", "throw"}

\* C10: a request makes at most 3 attempts; it stops at the first attempt that
\* does not fail; when every attempt fails (rate limit, transport error, other
\* status, in any mix) it makes exactly 3 and then raises, so a store that always
\* reports rate limiting sees exactly 3 attempts.
C10_AtMostThreeAttempts ==
    reqOut # NoData =>
        /\ Len(reqOut.seen) <= retries
        /\ reqOut.attempts = Len(reqOut.seen)
        /\ \A i \in 1..(Len(reqOut.seen) - 1) : Failing(reqOut.seen[i])
        /\ (\A i \in 1..Len(reqOut.seen) : Failing(reqOut.seen[i]))
              <=> (Len(reqOut.seen) = retries /\ reqOut.status = "raise")
        /\ (\A i \in 1..retries : reqIn.evs[i].kind = "rate")
              => (Len(reqOut.seen) = retries /\ reqOut.status = "raise")

\* an always rate-limited store has been asked 3 times and the call has raised
C10_Witness ==
    /\ reqOut # NoData
    /\ \A i \in 1..retries : reqIn.evs[i].kind = "rate"
    /\ reqOut.seen = <<"rate", "rate", "rate">>
    /\ reqOut.status = "raise"

\* the rate-limited attempts of the finished request
RateLimited == {i \in 1..Len(reqOut.seen) : reqOut.seen[i] = "rate"}

\* the sleep made after attempt i, if any: <<attempt, backoffMs before, ms slept>>
SleepAfter(i) == {reqOut.slept[k] : k \in {j \in 1..Len(reqOut.slept) : reqOut.slept[j][1] = i}}

\* backoffMs as it stands after the k-th sleep
BackoffAfter(k) ==
    IF k = Len(reqOut.slept) THEN reqOut.backoffMs ELSE reqOut.slept[k + 1][2]

\* C11: after a rate-limit response the client sleeps for the retry-after hint
\* (seconds, taken as ms) if there is one and else for the current base backoff,
\* never for more than 30000 ms; the base backoff starts at 1000 ms and is
\* doubled after each rate-limit response, so an always rate-limited store
\* without hints gives the sleeps 1000, 2000, 4000.
C11_BackoffSchedule ==
    reqOut # NoData =>
        /\ \A i \in RateLimited :
             \E e \in SleepAfter(i) :
                /\ SleepAfter(i) = {e}
                /\ e[3] = LET hint == reqIn.evs[i].hint
                              wait == IF hint # NoHint THEN hint * 1000 ELSE e[2]
                          IN IF wait > 30000 THEN 30000 ELSE wait
        /\ \A k \in 1..Len(reqOut.slept) :
             /\ reqOut.slept[k][3] <= 30000
             /\ reqOut.slept[k][1] \in RateLimited
                   => BackoffAfter(k) = 2 * reqOut.slept[k][2]
             /\ k = 1 => reqOut.slept[k][2] = 1000
        /\ (\A i \in 1..retries : reqIn.evs[i] = [kind |-> "rate", hint |-> NoHint])
              => reqOut.sleeps = <<1000, 2000, 4000>>

\* a request that was rate limited with a hint above the cap, with a small hint
\* and without a hint has slept 30000, 2000 and 4000 ms
C11_Witness ==
    /\ reqOut # NoData
    /\ reqOut.seen = <<"rate", "rate", "rate">>
    /\ reqIn.evs[1].hint = 60 /\ reqIn.evs[2].hint = 2 /\ reqIn.evs[3].hint = NoHint
    /\ reqOut.sleeps = <<30000, 2000, 4000>>

\* the attempt that was answered "not found", if any
Answered404 == {i \in 1..Len(reqOut.seen) : reqOut.seen[i] = "404"}

\* C12: "not found" is a result, not an error: the request ends on the attempt
\* that is answered 404, with status 404 and no data, without another attempt,
\* without a sleep after it and without raising; getFileSha then returns null,
\* getFileContent null and listDirectory an empty listing. An attempt reaches a
\* GET for a path that is neither a file nor a directory only to be answered so.
C12_NotFoundIsAResult ==
    reqOut # NoData =>
        /\ \A i \in Answered404 :
             /\ i = Len(reqOut.seen) /\ reqOut.attempts = i
             /\ reqOut.status = "404" /\ reqOut.data = NoData
             /\ reqOut.error = NoError
             /\ SleepAfter(i) = {}
             /\ getFileSha(reqOut) = NoSha
             /\ getFileContent(reqOut) = NoData
             /\ listDirectory(reqOut) = {}
        /\ (/\ reqIn.method = "GET" /\ reqOut.status # "raise"
            /\ reqIn.store[ReqPath] = Absent /\ reqIn.store[ReqChild] = Absent)
              => reqOut.status = "404"

\* a GET for a missing file was answered 404 on its second attempt, after a
\* rate-limit response
C12_Witness ==
    /\ reqOut # NoData
    /\ reqIn.method = "GET" /\ reqIn.path = ReqPath
    /\ reqOut.seen = <<"rate", "404">>
    /\ reqOut.status = "404"
    /\ Len(reqOut.slept) = 1

\* C13: when a request has used up its attempts, the error it raises is the
\* failure of the final attempt (errors are <<message, attempt>>), whatever the
\* mix of transport errors, rate-limit responses and other statuses was.
C13_RaisesLastObservedError ==
    (reqOut # NoData /\ reqOut.status = "raise") =>
        /\ reqOut.error # NoError
        /\ reqOut.error[2] = Len(reqOut.seen)

\* C14: computeDeleteOperations returns as removedSlugs exactly the slugs the
\* loaded manifest holds and the new manifest does not, and as pathsToDelete
\* exactly the recorded document and asset paths of those slugs that start with
\* the content directory; no path is returned for a slug the new manifest
\* holds, whatever assets the two entries record.
C14_DeletesExactlyTheRemovedSlugs ==
    (Loaded /\ run.operations # NoData) =>
        LET old == run.syncManager.currentManifest.posts
            new == run.syncManager.newManifest.posts
            gone == {i \in 1..Len(old) : \A j \in 1..Len(new) : new[j].slug # old[i].slug}
            recorded(i) == {old[i].repoPath} \cup Range(old[i].assets)
        IN /\ Range(run.operations.removedSlugs) = {old[i].slug : i \in gone}
           /\ Range(run.operations.pathsToDelete) =
                 {path \in UNION {recorded(i) : i \in gone} :
                     startsWith(path, settings.contentDirectory)}

\* the entry of the new manifest for slug, if any
EntryOf(slug) ==
    LET posts == run.syncManager.newManifest.posts
    IN {posts[i] : i \in {j \in 1..Len(posts) : posts[j].slug = slug}}

\* C15: when publishAll has published a document, the new manifest holds one
\* entry for its slug, with its remote document path and the remote path of
\* every asset uploaded or skipped as identical for it; and a document the run
\* before published and the vault no longer offers has its document path and
\* all these asset paths among the paths the next run schedules for deletion.
C15_RegisteredWithItsAssets ==
    Loaded =>
        /\ hist.published # <<>> =>
              LET last == hist.published[Len(hist.published)] IN
              \E e \in EntryOf(last.slug) :
                 /\ EntryOf(last.slug) = {e}
                 /\ e.repoPath = last.repoPath
                 /\ Range(e.assets) = Range(last.assetPaths)
        /\ run.operations # NoData =>
              \A k \in 1..Len(hist.before) :
                 hist.before[k].slug \notin EligibleSlugs(hist.files)
                    => ({hist.before[k].repoPath} \cup Range(hist.before[k].assetPaths))
                           \subseteq Range(run.operations.pathsToDelete)

\* the documents the run before published, each slug with its last publication
PublishedBefore ==
    {hist.before[k] : k \in {i \in 1..Len(hist.before) :
         \A j \in (i + 1)..Len(hist.before) : hist.before[j].slug # hist.before[i].slug}}

\* digests hasPostChanged may be asked about: those of the texts published
\* before and one of another text
AskedDigests == {p.sha : p \in PublishedBefore} \cup {BlobHash(<<"edited">>)}

\* C16: hasPostChanged answers true when no manifest was loaded or the loaded
\* manifest has no entry for the slug; for a slug the run before published it
\* answers false exactly when the digest equals the digest of the text that
\* run published.
C16_ChangeDetectionIsSound ==
    /\ \A d \in AskedDigests : hasPostChanged(NoData, <<"a">>, d).value
    /\ Loaded =>
          LET m == run.syncManager.currentManifest IN
          /\ \A slug \in {<<"a">>, <<"b">>, <<"q">>}, d \in AskedDigests :
                (\A i \in 1..Len(m.posts) : m.posts[i].slug # slug)
                    => hasPostChanged(m, slug, d).value
          /\ \A p \in PublishedBefore, d \in AskedDigests :
                hasPostChanged(m, p.slug, d).value = (d # p.sha)

\* the manifest file as the run found it is acceptable: it parses, its version
\* is 1 and its posts is a mapping
Acceptable(text) ==
    LET Ok(parsed) == IF parsed.ok THEN parsed.val.version = 1 /\ ~parsed.val.nullPosts
                      ELSE FALSE
    IN IF text = NoData THEN FALSE ELSE Ok(JSONparse(text))

\* C17: loadManifest hands on the persisted manifest only if it parses, has
\* version 1 and a mapping as posts, and an empty manifest in every other case
\* (no file, failed read, parse failure, other version, posts null); and the
\* run is never cut short by the manifest: when no request of the run failed
\* it ends without a sync error and with its new manifest saved.
C17_BadManifestNeverAbortsTheRun ==
    Loaded =>
        LET m == run.syncManager.currentManifest IN
        /\ (m.posts # <<>> \/ m.nullPosts) => Acceptable(hist.manifestText)
        /\ (run.pc = "done" /\ ~hist.failed) =>
              /\ \A i \in 1..Len(run.summary.warnings) :
                    run.summary.warnings[i] # <<"Sync error">>
              /\ Persisted(store).posts = run.syncManager.newManifest.posts

\* executeDeletes has returned
Deleted ==
    IF ~Loaded THEN FALSE
    ELSE IF run.operations = NoData THEN FALSE
    ELSE run.operations.pathsToDelete # <<>> /\ run.pc \in {"save", "done"}

\* the delete requests of the run that returned (answered 2xx or 404)
ReturnedDeletes == {i \in 1..Len(hist.deleteCalls) : ~hist.deleteCalls[i].raised}

PersistedMapping ==
    LET Posts(parsed) == parsed.val.posts IN Posts(JSONparse(hist.manifestText))

\* C19: when the mapping of slugs to posts of the new manifest is the one the
\* persisted manifest already holds, saveManifest sends no PUT.
C19_ResaveTransfersNothing ==
    (/\ Loaded /\ run.pc = "done" /\ ~hist.failed
     /\ Acceptable(hist.manifestText)) =>
        (PersistedMapping = run.syncManager.newManifest.posts
            => MANIFEST_PATH \notin hist.puts)

\* C20: after saveManifest has succeeded, the loadManifest of the next run (a
\* fresh manager on the same store) returns a manifest whose mapping of slugs
\* to entries (vaultPath, repoPath, assets, contentSha) is the one that was
\* saved.
C20_ManifestRoundTrip ==
    (Loaded /\ hist.savedBefore # NoData) =>
        /\ ~run.syncManager.currentManifest.nullPosts
        /\ run.syncManager.currentManifest.posts = hist.savedBefore.posts

\* the second run has loaded the manifest the first run saved, which records
\* a document under a path with a non-ASCII character
C20_Witness ==
    /\ Loaded
    /\ hist.savedBefore # NoData
    /\ \E i \in 1..Len(hist.savedBefore.posts) :
          \E k \in 1..Len(hist.savedBefore.posts[i].vaultPath) :
             hist.savedBefore.posts[i].vaultPath[k] = "U+00E9"
    /\ run.syncManager.currentManifest.posts = hist.savedBefore.posts

(***************************************************************************)
(* Extraction of asset references and rewriting of links                   *)
(***************************************************************************)
\* processMarkdownAssets has returned a result for the body of input
Extracted ==
    IF input = NoData \/ output = NoData THEN FALSE
    ELSE IF input.kind # "body" THEN FALSE
    ELSE ~output.threw

\* the image link an image piece is rewritten to
RewrittenPiece(piece) ==
    <<"![">> \o (IF piece.syntax = "wiki" THEN piece.file.basename
                 ELSE SubSeq(piece.text, 2, RunEnd(piece.text, 2, {"]("}) - 1))
        \o <<"](">> \o sanitizeFilename(piece.file.name) \o <<")">>

\* C25: for every document body, processMarkdownAssets returns at most one
\* AssetReference per distinct resolved source file, whichever syntaxes and
\* literal paths reference it and however often, and every occurrence of a
\* reference to the file is rewritten to a link to the same bare filename.
C25_OneAssetPerSourceFile ==
    Extracted =>
        /\ \A m, n \in 1..Len(output.assets) :
             output.assets[m].vaultFile.path = output.assets[n].vaultFile.path => m = n
        /\ output.rewrittenMarkdown =
               Flatten([i \in 1..Len(input.body) |->
                          IF input.body[i].class = "image"
                          THEN RewrittenPiece(input.body[i]) ELSE input.body[i].text])

\* the warning of result names the link text target
Warned(target) ==
    \E k \in 1..Len(output.warnings) : Tail(output.warnings[k]) = target

\* C26: a reference, in either syntax, whose target is an http://, https:// or
\* data: URL is passed through unmodified: it yields no asset and no warning,
\* the resolver is not consulted for it, and a body holding only such
\* references is returned unchanged.
C26_UrlsPassThrough ==
    Extracted =>
        /\ \A i \in 1..Len(input.body) :
             input.body[i].class = "url" =>
                 /\ ~Warned(input.body[i].target)
                 /\ input.body[i].target \notin Range(output.consulted)
                 /\ \A n \in 1..Len(output.assets) :
                      output.assets[n].originalLink # input.body[i].text
        /\ (\A i \in 1..Len(input.body) : input.body[i].class = "url") =>
               /\ output.rewrittenMarkdown = TextOf(input.body)
               /\ output.assets = <<>>
               /\ output.warnings = <<>>

\* the text the claims expect for a body: each image reference rewritten, every
\* other piece as it was
ExpectedText(body) ==
    Flatten([i \in 1..Len(body) |->
               IF body[i].class = "image" THEN RewrittenPiece(body[i]) ELSE body[i].text])

Unresolved(piece) == piece.class \in {"missing", "folder"}

C28_RewritesToBareFilename ==
    Extracted =>
        /\ output.rewrittenMarkdown = ExpectedText(input.body)
        /\ \A n \in 1..Len(output.assets) :
             /\ output.assets[n].targetFilename
                    = sanitizeFilename(output.assets[n].vaultFile.name)
             /\ output.assets[n].targetPath
                    = input.targetDirectory \o <<"/">> \o output.assets[n].targetFilename

\* text, ![[my image.PNG]] and ![alt](images/test.png) become text,
\* ![my image](my-image.PNG) and ![alt](test.png)
C28_Witness ==
    /\ Extracted
    /\ TextOf(input.body) = <<"T", "![[", "my", " ", "image", ".PNG", "]]">>
    /\ output.rewrittenMarkdown
           = <<"T", "![", "my", " ", "image", "](", "my", "-", "image", ".PNG", ")">>
    /\ output.assets[1].targetPath = <<"c", "/", "my-post", "/", "my", "-", "image", ".PNG">>

(***************************************************************************)
(* sanitizeFilename and computeSlug                                        *)
(***************************************************************************)
Sanitized ==
    IF input = NoData \/ output = NoData THEN FALSE ELSE input.kind = "filename"

\* the characters of NameChars that lie in [A-Za-z0-9._-]
AllowedChars == {"a", "Z", "0", ".", "_", "-"}

\* the k-th least element of a set of numbers
RECURSIVE Nth(_, _)
Nth(set, k) ==
    LET least == CHOOSE i \in set : \A j \in set : i <= j
    IN IF k = 1 THEN least ELSE Nth(set \ {least}, k - 1)

\* the positions of str that leave a character in the result: those of an
\* allowed character and the first of each whitespace run
Leaving(str) ==
    {i \in 1..Len(str) :
        \/ str[i] \in AllowedChars
        \/ str[i] \in Space /\ (IF i = 1 THEN TRUE ELSE str[i - 1] \notin Space)}

\* C29: sanitizeFilename replaces every whitespace run by one hyphen and then
\* removes every character outside [A-Za-z0-9._-]; its result holds only
\* characters of [A-Za-z0-9._-], and sanitizing the result changes nothing.
C29_SanitizeFilename ==
    Sanitized =>
        /\ \A k \in 1..Len(output.once) : output.once[k] \in AllowedChars
        /\ output.twice = output.once
        /\ Len(output.once) = Cardinality(Leaving(input.filename))
        /\ \A k \in 1..Len(output.once) :
             LET ch == input.filename[Nth(Leaving(input.filename), k)]
             IN output.once[k] = IF ch \in Space THEN "-" ELSE ch

\* "a (" becomes "a-": the blank is replaced, the parenthesis removed
C29_Witness ==
    /\ Sanitized
    /\ input.filename = <<"a", " ", "(">>
    /\ output.once = <<"a", "-">>

Slugged ==
    IF input = NoData \/ output = NoData THEN FALSE ELSE input.kind = "file"

\* the name computeSlug is to start from
ChosenName(file) ==
    IF file.basename \in {<<"index">>, <<"Index">>, <<"INDEX">>} /\ file.parent # NoData
    THEN file.parent ELSE file.basename

\* the positions of str that leave a character in the slug: all but those that
\* continue a whitespace run
LeavingSlug(str) ==
    {i \in 1..Len(str) :
        str[i] \in Space => (IF i = 1 THEN TRUE ELSE str[i - 1] \notin Space)}

\* C30: computeSlug returns the file name stem, or the name of the containing
\* folder when the stem is "index" in any letter case and there is a folder;
\* in that name each of \ / : * ? " < > | becomes a hyphen and each whitespace
\* run one hyphen, and nothing else changes.
C30_ComputeSlug ==
    Slugged =>
        LET name == ChosenName(input.file) IN
        /\ Len(output.slug) = Cardinality(LeavingSlug(name))
        /\ \A k \in 1..Len(output.slug) :
             LET ch == name[Nth(LeavingSlug(name), k)]
             IN output.slug[k] =
                    IF ch \in Space \cup {"\\", "/", ":", "*", "?", "\"", "<", ">", "|"}
                    THEN "-" ELSE ch

\* INDEX.md in the folder "my  post" has the slug my-post
C30_Witness ==
    /\ Slugged
    /\ input.file = [basename |-> <<"INDEX">>, parent |-> <<"my", " ", " ", "post">>]
    /\ output.slug = <<"my", "-", "post">>

(***************************************************************************)
(* The order of uploads, failures and the sync switch in publishAll        *)
(***************************************************************************)
\* the target paths of the assets of the d-th eligible document
AssetPathsOf(d) ==
    LET TargetsOf(assets) == {assets[i].targetPath : i \in 1..Len(assets)}
    IN TargetsOf(processedOf(run.eligibleFiles[d],
                             targetDirOf(settings.contentDirectory,
                                         computeSlug(run.eligibleFiles[d]))).assets)

\* C21: within the publish of one document the write of its text is issued
\* only after the upload call of every one of its assets has completed; no
\* asset upload of the document starts or is in flight when or after the text
\* write is issued.
C21_TextAfterAssets ==
    run # NoData =>
        \A k \in 1..Len(hist.uploads) :
            (hist.uploads[k].ev = "issued" /\ hist.uploads[k].kind = "markdown") =>
                /\ \A path \in AssetPathsOf(hist.uploads[k].idx) :
                     \E i, j \in 1..(k - 1) :
                        /\ i < j
                        /\ hist.uploads[i] = [ev |-> "issued", kind |-> "asset",
                                              idx |-> hist.uploads[k].idx, path |-> path]
                        /\ hist.uploads[j].ev \in {"returned", "raised"}
                        /\ hist.uploads[j].kind = "asset"
                        /\ hist.uploads[j].idx = hist.uploads[k].idx
                        /\ hist.uploads[j].path = path
                /\ \A j \in 1..Len(hist.uploads) :
                     (hist.uploads[j].kind = "asset"
                          /\ hist.uploads[j].idx = hist.uploads[k].idx) => j < k
                /\ \A i \in 1..(k - 1) :
                     (hist.uploads[i].ev = "issued" /\ hist.uploads[i].kind = "asset") =>
                         /\ hist.uploads[i + 1].ev \in {"returned", "raised"}
                         /\ hist.uploads[i + 1].path = hist.uploads[i].path

\* the text of a document with two assets is being written after the upload
\* of one asset returned and that of the other raised
C21_Witness ==
    /\ run # NoData
    /\ run.pc = "markdown"
    /\ Len(run.file.processed.assets) = 2
    /\ \E i, j \in 1..Len(hist.uploads) :
          /\ hist.uploads[i].kind = "asset" /\ hist.uploads[i].ev = "returned"
          /\ hist.uploads[j].kind = "asset" /\ hist.uploads[j].ev = "raised"

\* C22: whenever the rewritten text of a document is in the remote store,
\* every asset that a rewritten image link of the text points to is in the
\* remote store at its target path.
C22_LinksValidWhenTextVisible ==
    (run # NoData /\ run.pc = "markdown"
         /\ store[wr[1].path] = BytesOf(wr[1].content)) =>
        \A i \in 1..Len(run.file.processed.assets) :
            store[run.file.processed.assets[i].targetPath] # Absent

\* an upload of an asset or of a text raised in the run that has ended
UploadFailed ==
    IF run = NoData THEN FALSE
    ELSE /\ run.pc = "done"
         /\ \E k \in 1..Len(hist.uploads) :
               /\ hist.uploads[k].ev = "raised"
               /\ hist.uploads[k].kind \in {"asset", "markdown"}

\* the asset of the d-th eligible document that goes to the path
AssetAt(d, path) ==
    LET assets == processedOf(run.eligibleFiles[d],
                              targetDirOf(settings.contentDirectory,
                                          computeSlug(run.eligibleFiles[d]))).assets
    IN assets[CHOOSE i \in 1..Len(assets) : assets[i].targetPath = path]

\* the summary records the upload that raised
Recorded(up) ==
    LET name == run.eligibleFiles[up.idx].name IN
    IF up.kind = "markdown"
    THEN \E i \in 1..Len(run.summary.errors) :
            run.summary.errors[i] = <<"GitHub publish failed", name>>
    ELSE \E i \in 1..Len(run.summary.warnings) :
            run.summary.warnings[i] =
                <<name, "Asset upload failed (">>
                    \o AssetAt(up.idx, up.path).targetFilename \o <<")">>

\* the text of every eligible document was sent, and every failure is in the
\* summary
EveryDocumentAttempted ==
    /\ \A d \in 1..Len(run.eligibleFiles) :
          \E k \in 1..Len(hist.uploads) :
              /\ hist.uploads[k].ev = "issued"
              /\ hist.uploads[k].kind = "markdown"
              /\ hist.uploads[k].idx = d
    /\ \A k \in 1..Len(hist.uploads) :
          (hist.uploads[k].ev = "raised" /\ hist.uploads[k].kind \in {"asset", "markdown"})
              => Recorded(hist.uploads[k])

\* the run went through the deletion phase to saveManifest
SaveAttempted ==
    /\ run.operations # NoData
    /\ \E k \in 1..Len(hist.uploads) : hist.uploads[k].kind = "save"

\* C23: a failed asset upload or a failed document publish never aborts
\* publishAll: the text of every eligible document is still sent, the failure
\* is in the warnings or errors of the summary, and a run with a sync manager
\* goes on through the deletion phase to the manifest save before it reports.
C23_FailuresAreIsolated ==
    UploadFailed =>
        /\ EveryDocumentAttempted
        /\ run.syncManager # NoData => SaveAttempted

\* the same without the persisted manifest whose posts are null
C23_ExceptNullPosts ==
    UploadFailed =>
        /\ EveryDocumentAttempted
        /\ (run.syncManager # NoData /\ ~run.syncManager.currentManifest.nullPosts)
               => SaveAttempted

\* C24: a run with sync disabled, or without a remote client, never reads and
\* never writes the manifest, sends no digest lookup and no DELETE for a
\* deletion, and leaves every remote file it does not upload as it was, the
\* files of posts removed from the source among them.
C24_NoSyncTouchesNoManifest ==
    (run # NoData /\ ~(settings.configured /\ settings.enableSync)) =>
        /\ run.syncManager = NoData
        /\ MANIFEST_PATH \notin hist.reads \cup hist.puts
        /\ hist.lookups = <<>>
        /\ hist.deleteCalls = <<>>
        /\ hist.deletes = {}
        /\ \A path \in DOMAIN store :
              path \notin hist.puts => store[path] = hist.store0[path]

\* a run with sync disabled has published a document and has ended, while the
\* remote store holds a manifest and the file of a tracked post that is no
\* longer in the source
C24_Witness ==
    /\ run # NoData
    /\ run.pc = "done"
    /\ settings.configured
    /\ ~settings.enableSync
    /\ run.summary.postsPublished > 0
    /\ store[MANIFEST_PATH] # Absent
    /\ \E path \in hist.tracked :
          /\ path \notin hist.reads \cup hist.puts
          /\ store[path] # Absent

(***************************************************************************)
(* Eligibility of notes                                                    *)
(***************************************************************************)
Filtered == IF input = NoData \/ output = NoData THEN FALSE ELSE input.kind = "files"

\* the notes of a list whose frontmatter satisfies P, in their order
Those(files, P(_)) ==
    LET upTo[i \in 0..Len(files)] ==
            IF i = 0 THEN <<>>
            ELSE IF P(files[i].frontmatter) THEN Append(upTo[i - 1], files[i])
            ELSE upTo[i - 1]
    IN upTo[Len(files)]

\* frontmatter that asks for publishing, and frontmatter the claim has skipped
AsksFor(fm) == IF fm = NoData THEN FALSE ELSE fm.publish = "true" \/ fm.draft = "false"
SaidSkipped(fm) ==
    IF fm = NoData THEN TRUE
    ELSE fm.draft = "true" \/ (fm.publish = "unset" /\ fm.draft = "unset")
Complete(fm) == IF fm = NoData THEN FALSE ELSE fm.title /\ fm.date

Wanted(fm) ==
    IF fm = NoData THEN FALSE
    ELSE fm.draft # "true" /\ (fm.publish = "true" \/ fm.draft = "false")

\* the warnings of the invalid notes: one for each missing field, title first
RECURSIVE MissingFields(_)
MissingFields(files) ==
    IF files = <<>> THEN <<>>
    ELSE LET fm == Head(files).frontmatter IN
         (IF Wanted(fm) /\ ~fm.title
          THEN <<<<Head(files).name, "Missing 'title' property">>>> ELSE <<>>)
             \o (IF Wanted(fm) /\ ~fm.date
                 THEN <<<<Head(files).name, "Missing 'date' property">>>> ELSE <<>>)
             \o MissingFields(Tail(files))

ResolvesToFile(piece) ==
    IF piece.file = NoData THEN FALSE ELSE ~piece.file.folder

\* the extension is on the allow-list when case is disregarded
AllowedExtension(file) ==
    (IF file.extension = "PNG" THEN "png" ELSE file.extension)
        \in {"png", "jpg", "jpeg", "gif", "svg", "webp", "avif", "bmp", "ico"}

\* C32: a resolved reference becomes an asset if and only if the extension of
\* the resolved file is in the image allow-list, compared without regard to
\* case; a reference that resolves to another file yields no asset and no
\* warning and is left as it was in the rewritten text.
C32_AssetIffImageExtension ==
    Extracted =>
        /\ \A i \in 1..Len(input.body) :
             ResolvesToFile(input.body[i]) =>
                 /\ (\E n \in 1..Len(output.assets) :
                        output.assets[n].vaultFile = input.body[i].file)
                        <=> AllowedExtension(input.body[i].file)
                 /\ ~AllowedExtension(input.body[i].file) =>
                        ~Warned(input.body[i].target)
        /\ output.rewrittenMarkdown =
               Flatten([i \in 1..Len(input.body) |->
                          IF ResolvesToFile(input.body[i])
                               /\ AllowedExtension(input.body[i].file)
                          THEN RewrittenPiece(input.body[i])
                          ELSE input.body[i].text])

\* ![see](doc.pdf) and ![[my image.PNG]]: the first stays, the second is the
\* only asset
C32_Witness ==
    /\ Extracted
    /\ TextOf(input.body) = <<"![", "see", "](", "doc", ".pdf", ")",
                              "![[", "my", " ", "image", ".PNG", "]]">>
    /\ Len(output.assets) = 1
    /\ output.assets[1].vaultFile.extension = "PNG"
    /\ output.warnings = <<>>
    /\ SubSeq(output.rewrittenMarkdown, 1, 6) = <<"![", "see", "](", "doc", ".pdf", ")">>

(***************************************************************************)
(* The digest a delete carries                                             *)
(***************************************************************************)
\* C33: every deleteFile call of executeDeletes carries the digest that the
\* getFileSha call for the same path returned, and that call is the client
\* call issued directly before it; the digest is never the empty placeholder
\* of computeDeleteOperations and is the digest the remote file has when the
\* delete is issued.
C33_DeleteCarriesFreshDigest ==
    run # NoData =>
        \A k \in 1..Len(hist.syncCalls) :
            hist.syncCalls[k].op = "deleteFile" =>
                /\ k > 1
                /\ hist.syncCalls[k - 1].op = "getFileSha"
                /\ hist.syncCalls[k - 1].path = hist.syncCalls[k].path
                /\ ~hist.syncCalls[k - 1].raised
                /\ hist.syncCalls[k].sha = hist.syncCalls[k - 1].sha
                /\ hist.syncCalls[k].sha \notin {<<"">>, NoSha}
                /\ hist.syncCalls[k].sha = hist.syncCalls[k].remote

\* executeDeletes has sent two deletes, each after its own lookup, the second
\* after a lookup for another path that found nothing or failed
C33_Witness ==
    /\ run # NoData
    /\ \E i, j \in 1..Len(hist.syncCalls) :
          /\ i < j
          /\ hist.syncCalls[i].op = "deleteFile"
          /\ hist.syncCalls[j].op = "deleteFile"
          /\ hist.syncCalls[i].sha # hist.syncCalls[j].sha
    /\ \E i \in 1..Len(hist.syncCalls) :
          /\ hist.syncCalls[i].op = "getFileSha"
          /\ hist.syncCalls[i].sha = NoSha
          /\ i < Len(hist.syncCalls)
          /\ hist.syncCalls[i + 1].op = "getFileSha"

(***************************************************************************)
(* The previous-digest token of a PUT and the digest a write reports       *)
(***************************************************************************)
\* C34: the PUT of a createOrUpdateFile call carries a previous-digest token
\* exactly when the path held a file at the lookup of the same call, and the
\* token is the digest of that file; a PUT for a path that was absent carries
\* none; a call that uploaded reports the digest the remote store gave the
\* content it stored.
C34_PutCarriesLookupDigest ==
    wr[1] # NoData =>
        /\ wr[1].phase = "put" =>
              Payload(wr[1]).sha = IF wr[1].remoteBefore = Absent THEN NoSha
                                   ELSE BlobHash(wr[1].remoteBefore)
        /\ (wr[1].phase = "done" /\ wr[1].uploaded) =>
              /\ store[wr[1].path] = BytesOf(wr[1].content)
              /\ wr[1].sha = BlobHash(store[wr[1].path])

\* a call created a file with a PUT without token, and the next call is about
\* to update a file with a PUT that carries one
C34_Witness ==
    /\ lastCall # NoData
    /\ lastCall.uploaded
    /\ lastCall.remoteBefore = Absent
    /\ wr[1] # NoData
    /\ wr[1].phase = "put"
    /\ wr[1].remoteBefore # Absent
    /\ Payload(wr[1]).sha # NoSha

(***************************************************************************)
(* Progress at the gate                                                    *)
(***************************************************************************)
\* C35: when every admitted request comes to its end, every caller blocked in
\* acquire is eventually admitted (no caller stays blocked for ever, and a
\* blocked caller leaves acquire only with a slot); and a caller waits only
\* while every slot of its limiter is held by a request in flight, never by a
\* caller that itself waits for a slot.
C35_NoStarvation ==
    /\ \A t \in Tasks : []<>(pc[t] # "waiting")
    /\ [][\A t \in Tasks : pc[t] = "waiting" => pc'[t] \in {"waiting", "inflight"}]_vars
    /\ [](\A t \in Tasks :
            pc[t] = "waiting" =>
                /\ Cardinality({u \in Tasks : client[u] = client[t] /\ pc[u] = "inflight"})
                       = maxConcurrent
                /\ limiter[client[t]].running = maxConcurrent)

\* the queue of a limiter has just been emptied by a release: the last caller
\* that was blocked holds a slot now
C35_Witness ==
    \E c \in Clients :
        /\ lastExit.waiting = 1
        /\ waitOrder[c] = <<>>
        /\ limiter[c].queue = <<>>
        /\ limiter[c].running = maxConcurrent

(***************************************************************************)
(* A PUT whose answer is lost                                              *)
(***************************************************************************)
\* the attempts of the request that ended as reqOut which changed the tree
Applications ==
    LET treeBefore[k \in 1..(reqOut.attempts + 1)] ==
            IF k = 1 THEN reqIn.store
            ELSE requestUrl(reqIn.method, reqIn.path, reqIn.body, treeBefore[k - 1],
                            reqIn.evs[k - 1]).store
    IN {k \in 1..reqOut.attempts : treeBefore[k + 1] # treeBefore[k]}

\* a PUT through request() whose answers may be lost changes the tree at most
\* once
AppliedAtMostOnce ==
    (reqOut # NoData /\ reqIn # NoData) =>
        (IF reqIn.method = "PUT" THEN Cardinality(Applications) <= 1 ELSE TRUE)

\* C36: a createOrUpdateFile call that sent its PUT raises an error only if
\* the content did not end up stored at the path, also when the remote store
\* applied the PUT, the answer was lost and the request was retried.
C36_RaisesOnlyIfNotStored ==
    wr[1] # NoData =>
        ((wr[1].phase = "done" /\ wr[1].raised /\ wr[1].puts > 0)
             => store[wr[1].path] # BytesOf(wr[1].content))

(***************************************************************************)
(* Two writes of the same bytes to one path that overlap                   *)
(***************************************************************************)
BothDone == \A w \in Writers : IF wr[w] = NoData THEN FALSE ELSE wr[w].phase = "done"

\* C37: when two createOrUpdateFile calls for the same path with identical
\* bytes overlap, at most one PUT is sent and neither call fails.
C37_OverlappingWritesTransferOnce ==
    BothDone =>
        /\ \A w \in Writers : ~wr[w].raised
        /\ wr[1].puts + wr[2].puts <= 1

\* the same for two calls that do not overlap: the first has ended before the
\* lookup of the second
C37_OneAfterTheOther ==
    (BothDone /\ \E w \in Writers : wr[w].remoteBefore = BytesOf(wr[w].content)) =>
        /\ \A w \in Writers : ~wr[w].raised
        /\ wr[1].puts + wr[2].puts <= 1

(***************************************************************************)
(* Two documents of one run with the same slug                             *)
(***************************************************************************)
MarkdownWrites == {i \in DOMAIN hist.uploads :
                     hist.uploads[i].ev = "issued" /\ hist.uploads[i].kind = "markdown"}

\* C38: within one publishAll run two distinct eligible documents never write
\* the same remote document path and never share a manifest entry.
C38_DistinctDocumentsDistinctPaths ==
    /\ \A i \in MarkdownWrites, j \in MarkdownWrites :
          hist.uploads[i].idx # hist.uploads[j].idx
              => hist.uploads[i].path # hist.uploads[j].path
    /\ \A i \in DOMAIN hist.published, j \in DOMAIN hist.published :
          i # j => hist.published[i].slug # hist.published[j].slug

\* the same, for the runs whose eligible documents all have different slugs
C38_UnlessSlugsCollide ==
    (\A i \in DOMAIN hist.files, j \in DOMAIN hist.files :
        i # j => computeSlug(hist.files[i]) # computeSlug(hist.files[j]))
        => C38_DistinctDocumentsDistinctPaths

(***************************************************************************)
(* Target paths of the assets of one document                              *)
(***************************************************************************)
\* C39: within one document two distinct resolved source files never receive
\* the same target path, so no asset upload overwrites another asset of the
\* same document.
C39_DistinctFilesDistinctTargets ==
    (input.kind = "body" /\ output # NoData) =>
        \A i \in DOMAIN output.assets, j \in DOMAIN output.assets :
            output.assets[i].vaultFile.path # output.assets[j].vaultFile.path
                => output.assets[i].targetPath # output.assets[j].targetPath

\* target paths differ whenever the sanitized names of the files differ
C39_UnlessNamesCollide ==
    (input.kind = "body" /\ output # NoData) =>
        \A i \in DOMAIN output.assets, j \in DOMAIN output.assets :
            sanitizeFilename(output.assets[i].vaultFile.name)
                    # sanitizeFilename(output.assets[j].vaultFile.name)
                => output.assets[i].targetPath # output.assets[j].targetPath

(***************************************************************************)
(* Accounting of the summary                                               *)
(***************************************************************************)
\* the publish of eligibleFiles[i] succeeded at every destination in use
SucceededEverywhere(i) ==
    /\ settings.localOutputPath # "" => publishToLocal(settings, run.eligibleFiles[i])
    /\ settings.configured =>
          \E k \in DOMAIN hist.uploads :
              hist.uploads[k] = [ev |-> "returned", kind |-> "markdown", idx |-> i,
                                 path |-> hist.uploads[k].path]

CountedAs(what) == {k \in DOMAIN hist.counted : hist.counted[k].as = what}

\* C40: after publishAll every file is counted exactly once among
\* postsPublished, postsSkipped, postsInvalid and the failed documents of
\* errors, and postsPublished counts only documents whose publish succeeded
\* at every configured destination.
C40_SummaryAccounting ==
    (run # NoData /\ run.pc = "done") =>
        LET s == run.summary
            n == Len(run.eligibleFiles)
        IN /\ s.postsSkipped + s.postsInvalid + n = Len(hist.files)
           /\ \A i \in 1..n :
                 Cardinality({k \in DOMAIN hist.counted : hist.counted[k].idx = i}) = 1
           /\ s.postsPublished = Cardinality(CountedAs("published"))
           /\ Len(s.errors) = Cardinality(CountedAs("error"))
           /\ \A k \in CountedAs("published") : SucceededEverywhere(hist.counted[k].idx)

\* the accounting of the runs that publish to GitHub only
C40_GitHubOnly ==
    (settings.configured /\ settings.localOutputPath = "") => C40_SummaryAccounting

\* a document is counted as published and as failed
CountedTwice ==
    /\ run # NoData /\ run.pc = "done"
    /\ \E j \in DOMAIN hist.counted, k \in DOMAIN hist.counted :
          /\ hist.counted[j].idx = hist.counted[k].idx
          /\ hist.counted[j].as = "error" /\ hist.counted[k].as = "published"

\* an eligible document is counted nowhere
CountedNowhere ==
    /\ run # NoData /\ run.pc = "done"
    /\ \E i \in 1..Len(run.eligibleFiles) : \A k \in DOMAIN hist.counted : hist.counted[k].idx # i

====
